---- MODULE Spec2Model ----
(***************************************************************************)
(* Bonding-curve launchpad (agent-launchpad), payment router               *)
(* (x402-curve-router) and the part of the agent registry the launchpad    *)
(* consults.  Every public function is one atomic transaction: the host    *)
(* commits its writes only when the function returns (ok ...); an (err ..) *)
(* response or a runtime arithmetic fault discards every staged write.     *)
(*                                                                         *)
(* Amounts are of reduced magnitude (the deployed defaults are 10^15       *)
(* tokens and 10^10 microSTX); basis-point constants and error codes are   *)
(* the contract's own.                                                     *)
(***************************************************************************)
EXTENDS Integers, Sequences, FiniteSets, TLC

\* ------------------------------------------------------------------ bounds
MaxCalls == 5

\* ---------------------------------------------------- contract constants
ERR_NOT_REGISTERED == 1400
ERR_ALREADY_LAUNCHED == 1401
ERR_CURVE_NOT_FOUND == 1402
ERR_GRADUATED == 1403
ERR_ZERO_AMOUNT == 1404
ERR_INSUFFICIENT_BALANCE == 1405
ERR_SLIPPAGE == 1406
ERR_NOT_ADMIN == 1407
ERR_OVERFLOW == 1408
ERR_SELF_TRANSFER == 1409
ERR_CONTRACT_CALL == 1410
ERR_INVALID_PARAMS == 1411
ERR_NOT_GRADUATED == 1412
ERR_SOLD_OUT == 1413
ERR_INVALID_FEE == 1414
MAX_FEE_BPS == 500
MAX_CREATOR_SHARE_BPS == 10000
BPS_DENOM == 10000
\* 10^12 in the contract; reduced with the amounts so that products stay in range
PRICE_SCALE == 1000

ROUTER_ERR_NONCE_USED == 1500
ROUTER_ERR_ZERO_AMOUNT == 1501
ROUTER_ERR_CURVE_NOT_FOUND == 1502
ROUTER_ERR_UNAUTHORIZED == 1503

REGISTRY_ERR_ALREADY_REGISTERED == 1000

\* stx-transfer? error codes of the host
STX_ERR_INSUFFICIENT == 1
STX_ERR_SAME_PRINCIPAL == 2
STX_ERR_NON_POSITIVE == 3

\* ------------------------------------------------------------- principals
DEPLOYER == "deployer"
LAUNCHPAD == "agent-launchpad"
Users == {DEPLOYER, "wallet1", "wallet2"}
Principals == Users \cup {LAUNCHPAD}
NONE == "none"

\* ------------------------------------------------------------ input sets
Names == {"", "Token"}
Symbols == {"", "TKN"}
Nonces == {"n1", "n2"}
Prices == {200}
StxAmounts == {0, 1, 200, 1000}
MinOuts == {0, 600}
TokenAmounts == {0, 1, 300, 2000}
\* two issuers launch at most two curves; an id names no curve until its launch
CurveIds == {0, 1}
Recipients == {"wallet2", LAUNCHPAD}
NewAdmins == {"wallet1"}
InitialStx == [p \in Principals |->
                 IF p = LAUNCHPAD THEN 0 ELSE IF p = "wallet2" THEN 450 ELSE 1200]

Params(ts, vs, gs, fb, cs) ==
    [total_supply |-> ts, virtual_stx |-> vs, graduation_stx |-> gs,
     fee_bps |-> fb, creator_share_bps |-> cs]

InitialDefaults == Params(1000, 100, 1500, 100, 8000)

\* arguments offered to set-defaults: three acceptable tuples and one tuple
\* failing each validation
DefaultChoices ==
    { Params(1000, 100, 500, 100, 8000),
      Params(4, 10, 300, 500, 0),
      Params(1000, 100, 1000, 0, 10000),
      Params(0, 100, 500, 100, 8000),
      Params(1000, 0, 500, 100, 8000),
      Params(1000, 100, 0, 100, 8000),
      Params(1000, 100, 500, 501, 8000),
      Params(1000, 100, 500, 100, 10001) }

\* ------------------------------------------------------------------ state
VARIABLES
    agents,                 \* agent-registry: owner -> record
    curves,                 \* launchpad: id -> curve record
    balances,               \* launchpad: <<curve-id, holder>> -> amount
    agent_curve,            \* launchpad: agent -> curve-id
    total_curves,
    admin,
    pending_admin,
    protocol_fee_recipient,
    defaults,               \* the five default-* data vars
    receipts,               \* router: nonce -> receipt
    total_payments,
    total_volume_stx,
    router_admin,
    router_pending_admin,
    stx,                    \* host STX ledger: principal -> microSTX
    graduation_payouts,     \* history: curve-id -> "curve-graduated" events printed
    payments_made,          \* history: nonce -> "x402-curve-payment" events printed
    fees_charged,           \* history: curve-id -> fees of the trades committed
    fees_paid,              \* history: curve-id -> STX paid out at graduation
    calls                   \* committed transactions so far (exploration bound)

vars == <<agents, curves, balances, agent_curve, total_curves, admin,
          pending_admin, protocol_fee_recipient, defaults, receipts,
          total_payments, total_volume_stx, router_admin,
          router_pending_admin, stx, graduation_payouts, payments_made,
          fees_charged, fees_paid, calls>>

\* The contracts' and the host's data as one value, threaded through a call.
World ==
    [agents |-> agents, curves |-> curves, balances |-> balances,
     agent_curve |-> agent_curve, total_curves |-> total_curves,
     admin |-> admin, pending_admin |-> pending_admin,
     protocol_fee_recipient |-> protocol_fee_recipient,
     defaults |-> defaults, receipts |-> receipts,
     total_payments |-> total_payments,
     total_volume_stx |-> total_volume_stx, router_admin |-> router_admin,
     router_pending_admin |-> router_pending_admin, stx |-> stx]

\* ------------------------------------------------------- host primitives
\* stacks-block-height: all modelled transactions are mined in one block
stacks_block_height == 0

Ok(v) == [kind |-> "ok", val |-> v]
Err(code) == [kind |-> "err", val |-> code]
Abort == [kind |-> "abort", val |-> 0]      \* runtime fault, no response

IsOk(r) == r.kind = "ok"
IsErr(r) == r.kind = "err"
IsErrCode(r, code) == r.kind = "err" /\ r.val = code

\* What a (partial) evaluation yields: the response, the staged data, the
\* printed events and the STX transfers made so far.
Out(resp, w, ev, xf) == [resp |-> resp, st |-> w, events |-> ev, transfers |-> xf]

\* map-set on a map held as a function
MapSet(m, key, val) == [x \in DOMAIN m \cup {key} |-> IF x = key THEN val ELSE m[x]]

\* stx-transfer?: response and ledger after it
StxTransfer(ledger, amount, from, to) ==
    IF amount = 0 THEN [resp |-> Err(STX_ERR_NON_POSITIVE), stx |-> ledger]
    ELSE IF from = to THEN [resp |-> Err(STX_ERR_SAME_PRINCIPAL), stx |-> ledger]
    ELSE IF ledger[from] < amount
         THEN [resp |-> Err(STX_ERR_INSUFFICIENT), stx |-> ledger]
    ELSE [resp |-> Ok(TRUE),
          stx |-> [ledger EXCEPT ![from] = @ - amount, ![to] = @ + amount]]

\* define-public: staged writes are kept only on an (ok ...) response
CommitStaged(w, out) == out.st

Commit(w, out) == IF IsOk(out.resp) THEN out.st ELSE w

\* ------------------------------------------------------- agent-registry
\* every principal taken for a registered agent
is_registered_anyone(w, owner) == TRUE

is_registered(w, owner) == owner \in DOMAIN w.agents

register_agent(w, sender, price) ==
    IF sender \in DOMAIN w.agents
    THEN Out(Err(REGISTRY_ERR_ALREADY_REGISTERED), w, <<>>, <<>>)
    ELSE Out(Ok(sender),
             [w EXCEPT !.agents = MapSet(@, sender,
                 [price_per_task |-> price, registered_at |-> stacks_block_height])],
             <<[event |-> "agent-registered", owner |-> sender]>>, <<>>)

\* ------------------------------------------------------- agent-launchpad
\* the defaults of deployment read in place of the current ones
current_defaults_of_deployment(w) == InitialDefaults

\* the five default-* data vars as launch reads them
current_defaults(w) == w.defaults

\* every curve given the first id
next_curve_id_first(w) == 0

\* the id of the curve being launched: (var-get total-curves)
next_curve_id(w) == w.total_curves

\* the agent-curve index never consulted
has_launched_unread(w, sender) == FALSE

\* "One curve per agent": the agent-curve index has an entry for the caller
has_launched(w, sender) == sender \in DOMAIN w.agent_curve

launch(w, sender, name, symbol) ==
    LET curve_id == next_curve_id(w)
        ts == current_defaults(w).total_supply
        vs == current_defaults(w).virtual_stx
        k == vs * ts
    IN  IF ~is_registered(w, sender)
            THEN Out(Err(ERR_NOT_REGISTERED), w, <<>>, <<>>)
        ELSE IF has_launched(w, sender)
            THEN Out(Err(ERR_ALREADY_LAUNCHED), w, <<>>, <<>>)
        ELSE IF ~(Len(name) > 0) THEN Out(Err(ERR_INVALID_PARAMS), w, <<>>, <<>>)
        ELSE IF ~(Len(symbol) > 0) THEN Out(Err(ERR_INVALID_PARAMS), w, <<>>, <<>>)
        ELSE IF ~(ts > 0) THEN Out(Err(ERR_INVALID_PARAMS), w, <<>>, <<>>)
        ELSE IF ~(vs > 0) THEN Out(Err(ERR_INVALID_PARAMS), w, <<>>, <<>>)
        ELSE Out(Ok(curve_id),
                 [w EXCEPT
                    !.curves = MapSet(@, curve_id,
                        [creator |-> sender, name |-> name, symbol |-> symbol,
                         total_supply |-> ts, virtual_stx |-> vs, k |-> k,
                         stx_reserve |-> 0, tokens_sold |-> 0,
                         graduation_stx |-> current_defaults(w).graduation_stx,
                         fee_bps |-> current_defaults(w).fee_bps, accrued_fees |-> 0,
                         graduated |-> FALSE, created_at |-> stacks_block_height,
                         creator_share_bps |-> current_defaults(w).creator_share_bps]),
                    !.agent_curve = MapSet(@, sender, curve_id),
                    !.total_curves = curve_id + 1],
                 <<[event |-> "curve-launched", curve_id |-> curve_id,
                    creator |-> sender]>>, <<>>)

\* the two payouts of graduate-internal: each is skipped when its share is 0
PayShare(o, share, to) ==
    IF ~IsOk(o.resp) \/ ~(share > 0) THEN o
    ELSE LET t == StxTransfer(o.st.stx, share, LAUNCHPAD, to)
         IN  IF IsOk(t.resp)
             THEN Out(o.resp, [o.st EXCEPT !.stx = t.stx], o.events,
                      Append(o.transfers, [from |-> LAUNCHPAD, to |-> to, amount |-> share]))
             ELSE Out(t.resp, o.st, o.events, o.transfers)

creator_share_rounded_up(fees, bps) == (fees * bps + BPS_DENOM - 1) \div BPS_DENOM

creator_share(fees, bps) == (fees * bps) \div BPS_DENOM

\* "Must meet graduation threshold"
meets_threshold_unchecked(curve) == TRUE

meets_threshold(curve) == curve.stx_reserve >= curve.graduation_stx

\* "Can't graduate twice"
already_graduated_ignored(curve) == FALSE

already_graduated(curve) == curve.graduated

graduate_internal(w, curve_id) ==
    IF curve_id \notin DOMAIN w.curves
    THEN Out(Err(ERR_CURVE_NOT_FOUND), w, <<>>, <<>>)
    ELSE
    LET curve == w.curves[curve_id]
        fees == curve.accrued_fees
        cshare == creator_share(fees, curve.creator_share_bps)
        protocol_share == fees - cshare
        creator == curve.creator
        recipient == w.protocol_fee_recipient
    IN  IF ~meets_threshold(curve)
            THEN Out(Err(ERR_NOT_GRADUATED), w, <<>>, <<>>)
        ELSE IF already_graduated(curve)
            THEN Out(Err(ERR_GRADUATED), w, <<>>, <<>>)
        ELSE
        LET paid == PayShare(PayShare(Out(Ok(TRUE), w, <<>>, <<>>), cshare, creator),
                             protocol_share, recipient)
        IN  IF ~IsOk(paid.resp) THEN paid
            ELSE Out(Ok(TRUE),
                     [paid.st EXCEPT !.curves[curve_id] =
                         [curve EXCEPT !.graduated = TRUE, !.accrued_fees = 0]],
                     <<[event |-> "curve-graduated", curve_id |-> curve_id,
                        total_fees |-> fees, creator_share |-> cshare,
                        protocol_share |-> protocol_share]>>,
                     paid.transfers)

graduate(w, sender, curve_id) == graduate_internal(w, curve_id)

\* an existing balance entry read as absent
Balance_unread(w, curve_id, holder) == 0

Balance(w, curve_id, holder) ==
    IF <<curve_id, holder>> \in DOMAIN w.balances
    THEN w.balances[<<curve_id, holder>>] ELSE 0

\* the fee taken as a share of the net amount instead of the gross
trade_fee_of_net(amount, fee_bps) == (amount * fee_bps) \div (BPS_DENOM + fee_bps)

trade_fee(amount, fee_bps) == (amount * fee_bps) \div BPS_DENOM

buy_math_gross_reserve(curve, stx_amount) ==
    LET fee == trade_fee(stx_amount, curve.fee_bps)
        net_stx == stx_amount - fee
        token_reserve == curve.total_supply - curve.tokens_sold
        new_stx_reserve == curve.stx_reserve + net_stx
        divisor == curve.virtual_stx + new_stx_reserve
        new_token_reserve == IF divisor > 0 THEN curve.k \div divisor ELSE 0
        tokens_out == token_reserve - new_token_reserve
    IN  [ok |-> net_stx >= 0 /\ token_reserve >= 0 /\ divisor > 0 /\ tokens_out >= 0,
         fee |-> fee, token_reserve |-> token_reserve,
         new_stx_reserve |-> curve.stx_reserve + stx_amount, tokens_out |-> tokens_out]

\* the let-bindings of buy / get-buy-quote; ok = FALSE when a binding faults
\* (unsigned underflow or division by zero)
buy_math(curve, stx_amount) ==
    LET fee == trade_fee(stx_amount, curve.fee_bps)
        net_stx == stx_amount - fee
        token_reserve == curve.total_supply - curve.tokens_sold
        new_stx_reserve == curve.stx_reserve + net_stx
        divisor == curve.virtual_stx + new_stx_reserve
        new_token_reserve == IF divisor > 0 THEN curve.k \div divisor ELSE 0
        tokens_out == token_reserve - new_token_reserve
    IN  [ok |-> net_stx >= 0 /\ token_reserve >= 0 /\ divisor > 0 /\ tokens_out >= 0,
         fee |-> fee, token_reserve |-> token_reserve,
         new_stx_reserve |-> new_stx_reserve, tokens_out |-> tokens_out]

\* the first validation of buy
buy_open(curve) == ~curve.graduated

\* the fee of a trade not added to the pool
accrue_nothing(pool, fee) == pool

accrue(pool, fee) == pool + fee

\* "Check for auto-graduation"
reaches_graduation_strictly(updated_stx_reserve, curve) ==
    updated_stx_reserve > curve.graduation_stx

reaches_graduation(updated_stx_reserve, curve) ==
    updated_stx_reserve >= curve.graduation_stx

buy(w, caller, curve_id, stx_amount, min_tokens_out) ==
    IF curve_id \notin DOMAIN w.curves
    THEN Out(Err(ERR_CURVE_NOT_FOUND), w, <<>>, <<>>)
    ELSE
    LET curve == w.curves[curve_id]
        m == buy_math(curve, stx_amount)
        existing_bal == Balance(w, curve_id, caller)
    IN  IF ~m.ok THEN Out(Abort, w, <<>>, <<>>)
        ELSE IF ~buy_open(curve) THEN Out(Err(ERR_GRADUATED), w, <<>>, <<>>)
        ELSE IF ~(stx_amount > 0) THEN Out(Err(ERR_ZERO_AMOUNT), w, <<>>, <<>>)
        ELSE IF ~(m.token_reserve > 0) THEN Out(Err(ERR_SOLD_OUT), w, <<>>, <<>>)
        ELSE IF ~(m.tokens_out > 0) THEN Out(Err(ERR_OVERFLOW), w, <<>>, <<>>)
        ELSE IF ~(m.tokens_out >= min_tokens_out)
            THEN Out(Err(ERR_SLIPPAGE), w, <<>>, <<>>)
        ELSE
        LET t == StxTransfer(w.stx, stx_amount, caller, LAUNCHPAD)
        IN  IF ~IsOk(t.resp) THEN Out(t.resp, w, <<>>, <<>>)
            ELSE
            LET staged ==
                    [w EXCEPT
                       !.stx = t.stx,
                       !.curves[curve_id] =
                           [curve EXCEPT !.stx_reserve = m.new_stx_reserve,
                                         !.tokens_sold = @ + m.tokens_out,
                                         !.accrued_fees = accrue(@, m.fee)],
                       !.balances = MapSet(@, <<curve_id, caller>>,
                                           existing_bal + m.tokens_out)]
                xf == <<[from |-> caller, to |-> LAUNCHPAD, amount |-> stx_amount]>>
                g == IF reaches_graduation(m.new_stx_reserve, curve)
                     THEN graduate_internal(staged, curve_id)
                     ELSE Out(Ok(TRUE), staged, <<>>, <<>>)
            IN  IF ~IsOk(g.resp) THEN Out(g.resp, g.st, <<>>, xf \o g.transfers)
                ELSE Out(Ok([tokens_out |-> m.tokens_out, fee |-> m.fee]), g.st,
                         g.events \o
                           <<[event |-> "token-bought", curve_id |-> curve_id,
                              buyer |-> caller, stx_in |-> stx_amount,
                              tokens_out |-> m.tokens_out, fee |-> m.fee,
                              new_stx_reserve |-> m.new_stx_reserve]>>,
                         xf \o g.transfers)

\* the let-bindings of sell / get-sell-quote
\* the reserve reduced by the net payout, the fee left in it
sell_math_net_reserve(curve, token_amount) ==
    LET token_reserve == curve.total_supply - curve.tokens_sold
        new_token_reserve == token_reserve + token_amount
        quotient == IF new_token_reserve > 0 THEN curve.k \div new_token_reserve ELSE 0
        new_stx_reserve == quotient - curve.virtual_stx
        gross_stx == curve.stx_reserve - new_stx_reserve
        fee == trade_fee(gross_stx, curve.fee_bps)
        stx_out == gross_stx - fee
    IN  [ok |-> token_reserve >= 0 /\ new_token_reserve > 0 /\ new_stx_reserve >= 0
                /\ gross_stx >= 0 /\ stx_out >= 0,
         fee |-> fee, new_stx_reserve |-> curve.stx_reserve - stx_out,
         gross_stx |-> gross_stx, stx_out |-> stx_out]

sell_math(curve, token_amount) ==
    LET token_reserve == curve.total_supply - curve.tokens_sold
        new_token_reserve == token_reserve + token_amount
        quotient == IF new_token_reserve > 0 THEN curve.k \div new_token_reserve ELSE 0
        new_stx_reserve == quotient - curve.virtual_stx
        gross_stx == curve.stx_reserve - new_stx_reserve
        fee == trade_fee(gross_stx, curve.fee_bps)
        stx_out == gross_stx - fee
    IN  [ok |-> token_reserve >= 0 /\ new_token_reserve > 0 /\ new_stx_reserve >= 0
                /\ gross_stx >= 0 /\ stx_out >= 0,
         fee |-> fee, new_stx_reserve |-> new_stx_reserve,
         gross_stx |-> gross_stx, stx_out |-> stx_out]

\* the first validation of sell
sell_open_unchecked(curve) == TRUE

sell_open(curve) == ~curve.graduated

sell(w, caller, curve_id, token_amount, min_stx_out) ==
    IF curve_id \notin DOMAIN w.curves
        THEN Out(Err(ERR_CURVE_NOT_FOUND), w, <<>>, <<>>)
    ELSE IF <<curve_id, caller>> \notin DOMAIN w.balances
        THEN Out(Err(ERR_INSUFFICIENT_BALANCE), w, <<>>, <<>>)
    ELSE
    LET curve == w.curves[curve_id]
        seller_bal == w.balances[<<curve_id, caller>>]
        m == sell_math(curve, token_amount)
    IN  IF ~m.ok THEN Out(Abort, w, <<>>, <<>>)
        ELSE IF ~sell_open(curve) THEN Out(Err(ERR_GRADUATED), w, <<>>, <<>>)
        ELSE IF ~(token_amount > 0) THEN Out(Err(ERR_ZERO_AMOUNT), w, <<>>, <<>>)
        ELSE IF ~(seller_bal >= token_amount)
            THEN Out(Err(ERR_INSUFFICIENT_BALANCE), w, <<>>, <<>>)
        ELSE IF ~(m.stx_out > 0) THEN Out(Err(ERR_OVERFLOW), w, <<>>, <<>>)
        ELSE IF ~(m.stx_out >= min_stx_out) THEN Out(Err(ERR_SLIPPAGE), w, <<>>, <<>>)
        ELSE
        LET t == StxTransfer(w.stx, m.stx_out, LAUNCHPAD, caller)
        IN  IF ~IsOk(t.resp) THEN Out(t.resp, w, <<>>, <<>>)
            ELSE Out(Ok([stx_out |-> m.stx_out, fee |-> m.fee]),
                     [w EXCEPT
                        !.stx = t.stx,
                        !.curves[curve_id] =
                            [curve EXCEPT !.stx_reserve = m.new_stx_reserve,
                                          !.tokens_sold = @ - token_amount,
                                          !.accrued_fees = accrue(@, m.fee)],
                        !.balances[<<curve_id, caller>>] = seller_bal - token_amount],
                     <<[event |-> "token-sold", curve_id |-> curve_id,
                        seller |-> caller, tokens_in |-> token_amount,
                        stx_out |-> m.stx_out, fee |-> m.fee,
                        new_stx_reserve |-> m.new_stx_reserve]>>,
                     <<[from |-> LAUNCHPAD, to |-> caller, amount |-> m.stx_out]>>)

\* the self-transfer validation of transfer
is_self_transfer_missed(sender, recipient) == FALSE

is_self_transfer(sender, recipient) == sender = recipient

transfer(w, sender, curve_id, amount, recipient) ==
    IF <<curve_id, sender>> \notin DOMAIN w.balances
        THEN Out(Err(ERR_INSUFFICIENT_BALANCE), w, <<>>, <<>>)
    ELSE
    LET sender_bal == w.balances[<<curve_id, sender>>]
        recipient_bal == Balance(w, curve_id, recipient)
    IN  IF curve_id \notin DOMAIN w.curves
            THEN Out(Err(ERR_CURVE_NOT_FOUND), w, <<>>, <<>>)
        ELSE IF ~(amount > 0) THEN Out(Err(ERR_ZERO_AMOUNT), w, <<>>, <<>>)
        ELSE IF is_self_transfer(sender, recipient)
            THEN Out(Err(ERR_SELF_TRANSFER), w, <<>>, <<>>)
        ELSE IF ~(sender_bal >= amount)
            THEN Out(Err(ERR_INSUFFICIENT_BALANCE), w, <<>>, <<>>)
        ELSE Out(Ok(TRUE),
                 [w EXCEPT !.balances =
                     MapSet(MapSet(@, <<curve_id, sender>>, sender_bal - amount),
                            <<curve_id, recipient>>, recipient_bal + amount)],
                 <<[event |-> "token-transferred", curve_id |-> curve_id,
                    from |-> sender, to |-> recipient, amount |-> amount]>>, <<>>)

\* the fee limit of set-defaults not enforced
fee_within_limit_unchecked(fee_bps) == TRUE

fee_within_limit(fee_bps) == fee_bps <= MAX_FEE_BPS

set_defaults(w, sender, p) ==
    IF sender # w.admin THEN Out(Err(ERR_NOT_ADMIN), w, <<>>, <<>>)
    ELSE IF ~(p.total_supply > 0) THEN Out(Err(ERR_INVALID_PARAMS), w, <<>>, <<>>)
    ELSE IF ~(p.virtual_stx > 0) THEN Out(Err(ERR_INVALID_PARAMS), w, <<>>, <<>>)
    ELSE IF ~(p.graduation_stx > 0) THEN Out(Err(ERR_INVALID_PARAMS), w, <<>>, <<>>)
    ELSE IF ~fee_within_limit(p.fee_bps) THEN Out(Err(ERR_INVALID_FEE), w, <<>>, <<>>)
    ELSE IF ~(p.creator_share_bps <= MAX_CREATOR_SHARE_BPS)
        THEN Out(Err(ERR_INVALID_PARAMS), w, <<>>, <<>>)
    ELSE Out(Ok(TRUE), [w EXCEPT !.defaults = p],
             <<[event |-> "defaults-updated"]>>, <<>>)

set_protocol_fee_recipient(w, sender, new_recipient) ==
    IF sender # w.admin THEN Out(Err(ERR_NOT_ADMIN), w, <<>>, <<>>)
    ELSE Out(Ok(new_recipient), [w EXCEPT !.protocol_fee_recipient = new_recipient],
             <<[event |-> "fee-recipient-updated"]>>, <<>>)

transfer_admin(w, sender, new_admin) ==
    IF sender # w.admin THEN Out(Err(ERR_NOT_ADMIN), w, <<>>, <<>>)
    ELSE Out(Ok(new_admin), [w EXCEPT !.pending_admin = new_admin],
             <<[event |-> "admin-transfer-initiated"]>>, <<>>)

accept_admin(w, sender) ==
    IF w.pending_admin = NONE THEN Out(Err(ERR_NOT_ADMIN), w, <<>>, <<>>)
    ELSE IF sender # w.pending_admin THEN Out(Err(ERR_NOT_ADMIN), w, <<>>, <<>>)
    ELSE Out(Ok(w.pending_admin),
             [w EXCEPT !.admin = w.pending_admin, !.pending_admin = NONE],
             <<[event |-> "admin-transferred"]>>, <<>>)

\* the quote computed on the amount before the fee
get_buy_quote_on_gross(w, curve_id, stx_amount) ==
    IF curve_id \notin DOMAIN w.curves
    THEN Out(Err(ERR_CURVE_NOT_FOUND), w, <<>>, <<>>)
    ELSE
    LET curve == w.curves[curve_id]
        fee == (stx_amount * curve.fee_bps) \div BPS_DENOM
        token_reserve == curve.total_supply - curve.tokens_sold
        new_stx_reserve == curve.stx_reserve + stx_amount
        new_token_reserve == curve.k \div (curve.virtual_stx + new_stx_reserve)
        tokens_out == token_reserve - new_token_reserve
    IN  IF token_reserve < 0 \/ tokens_out < 0 THEN Out(Abort, w, <<>>, <<>>)
        ELSE Out(Ok([tokens_out |-> tokens_out, fee |-> fee]), w, <<>>, <<>>)

\* read-only: the response, with the data as they were and nothing printed
get_buy_quote(w, curve_id, stx_amount) ==
    IF curve_id \notin DOMAIN w.curves
    THEN Out(Err(ERR_CURVE_NOT_FOUND), w, <<>>, <<>>)
    ELSE
    LET curve == w.curves[curve_id]
        fee == (stx_amount * curve.fee_bps) \div BPS_DENOM
        net_stx == stx_amount - fee
        token_reserve == curve.total_supply - curve.tokens_sold
        new_stx_reserve == curve.stx_reserve + net_stx
        new_token_reserve == curve.k \div (curve.virtual_stx + new_stx_reserve)
        tokens_out == token_reserve - new_token_reserve
    IN  IF net_stx < 0 \/ token_reserve < 0 \/ curve.virtual_stx + new_stx_reserve = 0
           \/ tokens_out < 0
        THEN Out(Abort, w, <<>>, <<>>)
        ELSE Out(Ok([tokens_out |-> tokens_out, fee |-> fee]), w, <<>>, <<>>)

get_sell_quote(w, curve_id, token_amount) ==
    IF curve_id \notin DOMAIN w.curves
    THEN Out(Err(ERR_CURVE_NOT_FOUND), w, <<>>, <<>>)
    ELSE
    LET curve == w.curves[curve_id]
        token_reserve == curve.total_supply - curve.tokens_sold
        new_token_reserve == token_reserve + token_amount
    IN  IF token_reserve < 0 \/ new_token_reserve = 0 THEN Out(Abort, w, <<>>, <<>>)
        ELSE
        LET new_stx_reserve == (curve.k \div new_token_reserve) - curve.virtual_stx
            gross_stx == curve.stx_reserve - new_stx_reserve
            fee == (gross_stx * curve.fee_bps) \div BPS_DENOM
            stx_out == gross_stx - fee
        IN  IF new_stx_reserve < 0 \/ gross_stx < 0 \/ stx_out < 0
            THEN Out(Abort, w, <<>>, <<>>)
            ELSE Out(Ok([stx_out |-> stx_out, fee |-> fee]), w, <<>>, <<>>)

\* the ratio taken the wrong way round
get_price_inverted(w, curve_id) ==
    IF curve_id \notin DOMAIN w.curves THEN Err(ERR_CURVE_NOT_FOUND)
    ELSE LET curve == w.curves[curve_id]
             token_reserve == curve.total_supply - curve.tokens_sold
         IN  IF token_reserve < 0 THEN Abort
             ELSE IF curve.virtual_stx + curve.stx_reserve = 0 THEN Ok(0)
             ELSE Ok((token_reserve * PRICE_SCALE)
                        \div (curve.virtual_stx + curve.stx_reserve))

get_price(w, curve_id) ==
    IF curve_id \notin DOMAIN w.curves THEN Err(ERR_CURVE_NOT_FOUND)
    ELSE LET curve == w.curves[curve_id]
             token_reserve == curve.total_supply - curve.tokens_sold
         IN  IF token_reserve < 0 THEN Abort
             ELSE IF token_reserve = 0 THEN Ok(0)
             ELSE Ok(((curve.virtual_stx + curve.stx_reserve) * PRICE_SCALE)
                        \div token_reserve)

\* ---------------------------------------------------- x402-curve-router
\* "Nonce must be unused"
nonce_unused_unchecked(w, nonce) == TRUE

nonce_unused(w, nonce) == nonce \notin DOMAIN w.receipts

\* the receipt recorded for server-side verification
receipt_swapped(payer, curve_id, stx_amount, tokens_out, trade_fee_) ==
    [payer |-> payer, curve_id |-> curve_id, stx_amount |-> stx_amount,
     tokens_received |-> trade_fee_, fee |-> tokens_out, block |-> stacks_block_height]

receipt(payer, curve_id, stx_amount, tokens_out, trade_fee_) ==
    [payer |-> payer, curve_id |-> curve_id, stx_amount |-> stx_amount,
     tokens_received |-> tokens_out, fee |-> trade_fee_, block |-> stacks_block_height]

\* the volume counting payments instead of adding amounts
volume_added_as_count(total_volume_stx_, stx_amount) == total_volume_stx_ + 1

\* "Update stats": the new total-volume-stx
volume_added(total_volume_stx_, stx_amount) == total_volume_stx_ + stx_amount

pay_via_curve(w, sender, curve_id, stx_amount, nonce, min_tokens_out) ==
    IF ~nonce_unused(w, nonce)
        THEN Out(Err(ROUTER_ERR_NONCE_USED), w, <<>>, <<>>)
    ELSE IF ~(stx_amount > 0) THEN Out(Err(ROUTER_ERR_ZERO_AMOUNT), w, <<>>, <<>>)
    ELSE
    LET b == buy(w, sender, curve_id, stx_amount, min_tokens_out)
    IN  IF ~IsOk(b.resp) THEN b
        ELSE
        LET tokens_out == b.resp.val.tokens_out
            fee == b.resp.val.fee
        IN  Out(Ok([tokens_received |-> tokens_out, fee |-> fee]),
                [b.st EXCEPT
                   !.receipts = MapSet(@, nonce,
                       receipt(sender, curve_id, stx_amount, tokens_out, fee)),
                   !.total_payments = @ + 1,
                   !.total_volume_stx = volume_added(@, stx_amount)],
                b.events \o
                  <<[event |-> "x402-curve-payment", payer |-> sender,
                     curve_id |-> curve_id, stx_amount |-> stx_amount,
                     tokens_received |-> tokens_out, fee |-> fee, nonce |-> nonce]>>,
                b.transfers)

router_transfer_admin(w, sender, new_admin) ==
    IF sender # w.router_admin THEN Out(Err(ROUTER_ERR_UNAUTHORIZED), w, <<>>, <<>>)
    ELSE Out(Ok(new_admin), [w EXCEPT !.router_pending_admin = new_admin],
             <<[event |-> "admin-transfer-initiated"]>>, <<>>)

router_accept_admin(w, sender) ==
    IF w.router_pending_admin = NONE
        THEN Out(Err(ROUTER_ERR_UNAUTHORIZED), w, <<>>, <<>>)
    ELSE IF sender # w.router_pending_admin
        THEN Out(Err(ROUTER_ERR_UNAUTHORIZED), w, <<>>, <<>>)
    ELSE Out(Ok(w.router_pending_admin),
             [w EXCEPT !.router_admin = w.router_pending_admin,
                       !.router_pending_admin = NONE],
             <<[event |-> "admin-transferred"]>>, <<>>)

\* the optional answer is a sequence: <<receipt>> for (some receipt), <<>> for none
verify_payment(w, nonce) ==
    IF nonce \in DOMAIN w.receipts THEN <<w.receipts[nonce]>> ELSE <<>>

\* every nonce reported as free
is_nonce_available_always(w, nonce) == TRUE

is_nonce_available(w, nonce) == nonce \notin DOMAIN w.receipts

\* ------------------------------------------------------------ transactions
\* A call: the function, tx-sender and arguments (unused arguments at their
\* neutral value).
Call(op, sender, curve_id, amount, min_out, nonce, to, name, symbol, params) ==
    [op |-> op, sender |-> sender, curve_id |-> curve_id, amount |-> amount,
     min_out |-> min_out, nonce |-> nonce, to |-> to, name |-> name,
     symbol |-> symbol, params |-> params]

NoParams == Params(0, 0, 0, 0, 0)

RegisterCalls ==
    { Call("register-agent", s, 0, p, 0, "", NONE, "", "", NoParams) :
        s \in Users, p \in Prices }
LaunchCalls ==
    { Call("launch", s, 0, 0, 0, "", NONE, n, y, NoParams) :
        s \in Users, n \in Names, y \in Symbols }
BuyCalls ==
    { Call("buy", s, c, a, m, "", NONE, "", "", NoParams) :
        s \in Users, c \in CurveIds, a \in StxAmounts, m \in MinOuts }
SellCalls(w) ==
    UNION { { Call("sell", s, c, a, m, "", NONE, "", "", NoParams) :
                a \in TokenAmounts \cup {Balance(w, c, s)}, m \in MinOuts } :
            s \in Users, c \in CurveIds }
TransferCalls(w) ==
    UNION { { Call("transfer", s, c, a, 0, "", r, "", "", NoParams) :
                a \in {0, 1, Balance(w, c, s), Balance(w, c, s) + 1}, r \in Users } :
            s \in Users, c \in CurveIds }
GraduateCalls ==
    { Call("graduate", s, c, 0, 0, "", NONE, "", "", NoParams) :
        s \in Users, c \in CurveIds }
SetDefaultsCalls ==
    { Call("set-defaults", s, 0, 0, 0, "", NONE, "", "", p) :
        s \in Users, p \in DefaultChoices }
SetRecipientCalls ==
    { Call("set-protocol-fee-recipient", s, 0, 0, 0, "", r, "", "", NoParams) :
        s \in Users, r \in Recipients }
TransferAdminCalls ==
    { Call("transfer-admin", s, 0, 0, 0, "", r, "", "", NoParams) :
        s \in Users, r \in NewAdmins }
AcceptAdminCalls ==
    { Call("accept-admin", s, 0, 0, 0, "", NONE, "", "", NoParams) : s \in Users }
PayCalls ==
    { Call("pay-via-curve", s, c, a, m, n, NONE, "", "", NoParams) :
        s \in Users, c \in CurveIds, a \in StxAmounts, m \in MinOuts, n \in Nonces }
RouterTransferAdminCalls ==
    { Call("router-transfer-admin", s, 0, 0, 0, "", r, "", "", NoParams) :
        s \in Users, r \in NewAdmins }
RouterAcceptAdminCalls ==
    { Call("router-accept-admin", s, 0, 0, 0, "", NONE, "", "", NoParams) :
        s \in Users }

AdminCalls ==
    SetDefaultsCalls \cup SetRecipientCalls \cup TransferAdminCalls
    \cup AcceptAdminCalls \cup RouterTransferAdminCalls \cup RouterAcceptAdminCalls
FixedCalls ==
    RegisterCalls \cup LaunchCalls \cup BuyCalls \cup GraduateCalls
    \cup PayCalls \cup AdminCalls

\* The calls that can be made on w are FixedCalls and the sells and
\* transfers, which are sized by w's balances.
HolderCalls(w) == SellCalls(w) \cup TransferCalls(w)

\* the function a call names, evaluated on w
Eval(w, c) ==
    CASE c.op = "register-agent" -> register_agent(w, c.sender, c.amount)
      [] c.op = "launch" -> launch(w, c.sender, c.name, c.symbol)
      [] c.op = "buy" -> buy(w, c.sender, c.curve_id, c.amount, c.min_out)
      [] c.op = "sell" -> sell(w, c.sender, c.curve_id, c.amount, c.min_out)
      [] c.op = "transfer" -> transfer(w, c.sender, c.curve_id, c.amount, c.to)
      [] c.op = "graduate" -> graduate(w, c.sender, c.curve_id)
      [] c.op = "set-defaults" -> set_defaults(w, c.sender, c.params)
      [] c.op = "set-protocol-fee-recipient" ->
             set_protocol_fee_recipient(w, c.sender, c.to)
      [] c.op = "transfer-admin" -> transfer_admin(w, c.sender, c.to)
      [] c.op = "accept-admin" -> accept_admin(w, c.sender)
      [] c.op = "pay-via-curve" ->
             pay_via_curve(w, c.sender, c.curve_id, c.amount, c.nonce, c.min_out)
      [] c.op = "router-transfer-admin" -> router_transfer_admin(w, c.sender, c.to)
      [] c.op = "router-accept-admin" -> router_accept_admin(w, c.sender)

\* the data after the transaction: committed or rolled back
After(w, c) == Commit(w, Eval(w, c))

\* how many events named ev a call printed for curve or nonce x
Printed(out, ev, x) ==
    Cardinality({ i \in DOMAIN out.events :
                    out.events[i].event = ev /\
                    IF ev = "curve-graduated" THEN out.events[i].curve_id = x
                    ELSE out.events[i].nonce = x })

\* the fees of the "token-bought" and "token-sold" events evs of curve x
RECURSIVE FeesIn(_, _)
FeesIn(evs, x) ==
    IF evs = <<>> THEN 0
    ELSE (IF Head(evs).event \in {"token-bought", "token-sold"}
             /\ Head(evs).curve_id = x
          THEN Head(evs).fee ELSE 0)
         + FeesIn(Tail(evs), x)

\* the STX the transfers xf take from the principal p
RECURSIVE SentBy(_, _)
SentBy(xf, p) ==
    IF xf = <<>> THEN 0
    ELSE (IF Head(xf).from = p THEN Head(xf).amount ELSE 0) + SentBy(Tail(xf), p)

Init ==
    /\ agents = <<>>
    /\ curves = <<>>
    /\ balances = <<>>
    /\ agent_curve = <<>>
    /\ total_curves = 0
    /\ admin = DEPLOYER
    /\ pending_admin = NONE
    /\ protocol_fee_recipient = DEPLOYER
    /\ defaults = InitialDefaults
    /\ receipts = <<>>
    /\ total_payments = 0
    /\ total_volume_stx = 0
    /\ router_admin = DEPLOYER
    /\ router_pending_admin = NONE
    /\ stx = InitialStx
    /\ graduation_payouts = [c \in CurveIds |-> 0]
    /\ payments_made = [n \in Nonces |-> 0]
    /\ fees_charged = [c \in CurveIds |-> 0]
    /\ fees_paid = [c \in CurveIds |-> 0]
    /\ calls = 0

\* The data w and the response of a finished transaction become the state.
Install(w, out) ==
    /\ agents' = w.agents
    /\ curves' = w.curves
    /\ balances' = w.balances
    /\ agent_curve' = w.agent_curve
    /\ total_curves' = w.total_curves
    /\ admin' = w.admin
    /\ pending_admin' = w.pending_admin
    /\ protocol_fee_recipient' = w.protocol_fee_recipient
    /\ defaults' = w.defaults
    /\ receipts' = w.receipts
    /\ total_payments' = w.total_payments
    /\ total_volume_stx' = w.total_volume_stx
    /\ router_admin' = w.router_admin
    /\ router_pending_admin' = w.router_pending_admin
    /\ stx' = w.stx
    /\ graduation_payouts' =
           IF IsOk(out.resp)
           THEN [x \in CurveIds |->
                   graduation_payouts[x] + Printed(out, "curve-graduated", x)]
           ELSE graduation_payouts
    /\ payments_made' =
           IF IsOk(out.resp)
           THEN [n \in Nonces |->
                   payments_made[n] + Printed(out, "x402-curve-payment", n)]
           ELSE payments_made
    /\ fees_charged' =
           IF IsOk(out.resp)
           THEN [x \in CurveIds |-> fees_charged[x] + FeesIn(out.events, x)]
           ELSE fees_charged
    /\ fees_paid' =
           IF IsOk(out.resp)
           THEN [x \in CurveIds |->
                   fees_paid[x]
                   + (IF Printed(out, "curve-graduated", x) > 0
                      THEN SentBy(out.transfers, LAUNCHPAD) ELSE 0)]
           ELSE fees_paid
    /\ calls' = IF IsOk(out.resp) THEN calls + 1 ELSE calls

\* the writes of an evaluation are committed or discarded as a whole
Settle(out) == \E w \in {Commit(World, out)} : Install(w, out)

\* One transaction: the evaluation of a call on the current data is settled.
Transact(out) == calls < MaxCalls /\ Settle(out)

\* The transactions the exploration submits.  A call that fails changes
\* nothing, so the actions draw arguments that can succeed; the properties
\* evaluate the wider call sets above on every state reached.
Registrants == {DEPLOYER, "wallet1"}
BuyInputs == {<<"wallet2", 200>>, <<"wallet1", 200>>, <<"wallet1", 1000>>}
PayInputs == {<<"wallet2", 200, "n1">>, <<"wallet2", 200, "n2">>,
              <<DEPLOYER, 1000, "n1">>}
Sellers == {"wallet1", "wallet2"}
TransferInputs == {<<"wallet2", DEPLOYER>>, <<"wallet1", "wallet2">>}

RegisterAgent ==
    \E c \in RegisterCalls :
        /\ c.sender \in Registrants
        /\ \E out \in {register_agent(World, c.sender, c.amount)} : Transact(out)
Launch ==
    \E c \in LaunchCalls :
        /\ c.name # "" /\ c.symbol # ""
        /\ \E out \in {launch(World, c.sender, c.name, c.symbol)} : Transact(out)
Buy ==
    \E c \in BuyCalls :
        /\ <<c.sender, c.amount>> \in BuyInputs /\ c.min_out = 0
        /\ \E out \in {buy(World, c.sender, c.curve_id, c.amount, c.min_out)} :
              Transact(out)
Sell ==
    \E c \in SellCalls(World) :
        /\ c.sender \in Sellers /\ c.min_out = 0
        /\ c.amount \in {1, Balance(World, c.curve_id, c.sender)}
        /\ \E out \in {sell(World, c.sender, c.curve_id, c.amount, c.min_out)} :
              Transact(out)
Transfer ==
    \E c \in TransferCalls(World) :
        /\ <<c.sender, c.to>> \in TransferInputs
        /\ c.amount = Balance(World, c.curve_id, c.sender)
        /\ \E out \in {transfer(World, c.sender, c.curve_id, c.amount, c.to)} :
              Transact(out)
Graduate ==
    \E c \in GraduateCalls :
        /\ c.sender = "wallet2"
        /\ \E out \in {graduate(World, c.sender, c.curve_id)} : Transact(out)
PayViaCurve ==
    \E c \in PayCalls :
        /\ <<c.sender, c.amount, c.nonce>> \in PayInputs /\ c.min_out = 0
        /\ \E out \in {pay_via_curve(World, c.sender, c.curve_id, c.amount,
                                      c.nonce, c.min_out)} : Transact(out)
SetDefaults ==
    \E c \in SetDefaultsCalls :
        /\ c.sender = admin
        /\ \E out \in {set_defaults(World, c.sender, c.params)} : Transact(out)
SetProtocolFeeRecipient ==
    \E c \in SetRecipientCalls :
        /\ c.sender = admin
        /\ \E out \in {set_protocol_fee_recipient(World, c.sender, c.to)} :
              Transact(out)
TransferAdmin ==
    \E c \in TransferAdminCalls :
        /\ c.sender = admin
        /\ \E out \in {transfer_admin(World, c.sender, c.to)} : Transact(out)
AcceptAdmin ==
    \E c \in AcceptAdminCalls :
        \E out \in {accept_admin(World, c.sender)} : Transact(out)
RouterTransferAdmin ==
    \E c \in RouterTransferAdminCalls :
        /\ c.sender = router_admin
        /\ \E out \in {router_transfer_admin(World, c.sender, c.to)} : Transact(out)
RouterAcceptAdmin ==
    \E c \in RouterAcceptAdminCalls :
        \E out \in {router_accept_admin(World, c.sender)} : Transact(out)

Next ==
    \/ RegisterAgent
    \/ Launch
    \/ Buy
    \/ Sell
    \/ Transfer
    \/ Graduate
    \/ PayViaCurve
    \/ SetDefaults
    \/ SetProtocolFeeRecipient
    \/ TransferAdmin
    \/ AcceptAdmin
    \/ RouterTransferAdmin
    \/ RouterAcceptAdmin

Spec == Init /\ [][Next]_vars

\* ===================================================================
\* Properties.  A property about "every call" is stated on every reachable
\* state for every call of the call sets: Eval gives the call's response,
\* events and transfers, After the data once the transaction has ended.
\* ===================================================================

TypeOK ==
    /\ total_curves \in 0..2
    /\ DOMAIN curves = 0..(total_curves - 1)
    /\ \A p \in Principals : stx[p] >= 0
    /\ calls \in 0..MaxCalls

WouldBuy(c) == IsOk(buy(World, c.sender, c.curve_id, c.amount, c.min_out).resp)

\* C1 -- Replay protection: for every nonce at most one pay-via-curve call
\* ever succeeds (the nonce has a receipt exactly when one call succeeded);
\* every later call carrying a used nonce, whatever its caller, curve, amount
\* and min-tokens-out, returns ERR-NONCE-USED and leaves curves, balances,
\* receipts, stats and every STX balance as they were.
C1_ReplayProtection ==
    /\ \A n \in Nonces :
          /\ payments_made[n] <= 1
          /\ (payments_made[n] = 1) <=> (n \in DOMAIN receipts)
    /\ \A c \in PayCalls :
          c.nonce \in DOMAIN receipts =>
            LET out == Eval(World, c)
            IN  /\ IsErrCode(out.resp, ROUTER_ERR_NONCE_USED)
                /\ out.transfers = <<>>
                /\ Commit(World, out) = World

\* a nonce has been paid once, and a call that buy alone would accept is
\* turned down for carrying it
C1_Witness ==
    \E c \in PayCalls :
        /\ payments_made[c.nonce] = 1
        /\ c.amount > 0 /\ WouldBuy(c)
        /\ IsErrCode(Eval(World, c).resp, ROUTER_ERR_NONCE_USED)

\* C2 -- pay-via-curve is all-or-nothing: a call that succeeds applies exactly
\* the effects of buy on the same arguments and adds a receipt under its nonce
\* with the caller as payer, the curve id, the amount and the tokens-out and
\* fee buy returned, and counts it in the stats; a call that does not succeed
\* applies nothing.  The receipts stored are exactly the payments made.
C2_AllOrNothing ==
    /\ \A n \in Nonces : (n \in DOMAIN receipts) <=> (payments_made[n] = 1)
    /\ total_payments = Cardinality(DOMAIN receipts)
    /\ \A c \in PayCalls :
          LET out == Eval(World, c)
              b == buy(World, c.sender, c.curve_id, c.amount, c.min_out)
              w == Commit(World, out)
          IN  IF IsOk(out.resp)
              THEN /\ IsOk(b.resp)
                   /\ [w EXCEPT !.receipts = receipts,
                                 !.total_payments = total_payments,
                                 !.total_volume_stx = total_volume_stx] = b.st
                   /\ out.transfers = b.transfers
                   /\ DOMAIN w.receipts = DOMAIN receipts \cup {c.nonce}
                   /\ w.receipts[c.nonce] =
                        [payer |-> c.sender, curve_id |-> c.curve_id,
                         stx_amount |-> c.amount,
                         tokens_received |-> b.resp.val.tokens_out,
                         fee |-> b.resp.val.fee, block |-> stacks_block_height]
                   /\ out.resp.val = [tokens_received |-> b.resp.val.tokens_out,
                                      fee |-> b.resp.val.fee]
                   /\ w.total_payments = total_payments + 1
                   /\ w.total_volume_stx = total_volume_stx + c.amount
              ELSE w = World

\* a payment that charges a fee is about to succeed, and one that must fail
\* inside buy is about to be turned down
C2_Witness ==
    /\ \E c \in PayCalls :
          LET out == Eval(World, c)
          IN  IsOk(out.resp) /\ out.resp.val.fee > 0
              /\ out.resp.val.tokens_received # out.resp.val.fee
    /\ \E c \in PayCalls :
          c.nonce \notin DOMAIN receipts /\ c.amount > 0 /\ ~WouldBuy(c)
    /\ receipts # <<>>

ReceiptsKept(c) ==
    LET w == After(World, c)
    IN  \A n \in DOMAIN receipts :
            /\ n \in DOMAIN w.receipts
            /\ w.receipts[n] = receipts[n]
            /\ verify_payment(w, n) = verify_payment(World, n)

\* C3 -- Receipts are write-once: whatever call any sender makes next (admin
\* calls included), every stored receipt is still stored with the same
\* fields, so verify-payment returns the same receipt.
C3_ReceiptsWriteOnce ==
    /\ \A c \in FixedCalls : ReceiptsKept(c)
    /\ \A c \in HolderCalls(World) : ReceiptsKept(c)

\* a receipt is stored while a payment under another nonce and an admin call
\* are about to succeed
C3_Witness ==
    /\ receipts # <<>>
    /\ \E c \in PayCalls : IsOk(Eval(World, c).resp)
    /\ \E c \in AdminCalls : IsOk(Eval(World, c).resp) /\ After(World, c) # World

\* ------------------------------------------------------------------ C4
StxSide(cv) == cv.virtual_stx + cv.stx_reserve
TokenSide(cv) == cv.total_supply - cv.tokens_sold
Exact(cv) == StxSide(cv) * TokenSide(cv) = cv.k
RoundedByBuy(cv) == TokenSide(cv) = cv.k \div StxSide(cv)
RoundedBySell(cv) == TokenSide(cv) > 0 /\ StxSide(cv) = cv.k \div TokenSide(cv)
SameSides(cv, cw) ==
    StxSide(cv) = StxSide(cw) /\ TokenSide(cv) = TokenSide(cw) /\ cv.k = cw.k

ProductKept(c) ==
    LET out == Eval(World, c)
        w == Commit(World, out)
    IN  IsOk(out.resp) =>
          /\ \A id \in DOMAIN curves :
                (c.op \in {"buy", "sell", "pay-via-curve"} /\ id = c.curve_id)
                \/ SameSides(w.curves[id], curves[id])
          /\ c.op = "launch" =>
                /\ DOMAIN w.curves = DOMAIN curves \cup {out.resp.val}
                /\ Exact(w.curves[out.resp.val])
          /\ c.op \in {"buy", "pay-via-curve"} => RoundedByBuy(w.curves[c.curve_id])
          /\ c.op = "sell" => RoundedBySell(w.curves[c.curve_id])

\* C4 -- Constant product: every curve has (virtual + real reserve) * (total
\* supply - tokens sold) equal to k up to the one floor rounding of its last
\* trade.  A successful launch creates a curve with the product exactly k; a
\* successful buy (direct or through the router) leaves token reserve =
\* floor(k / stx side); a successful sell leaves stx side = floor(k / token
\* reserve); every other successful call, and every trade on another curve,
\* leaves both sides and k as they were.
C4_ConstantProduct ==
    /\ \A id \in DOMAIN curves :
          Exact(curves[id]) \/ RoundedByBuy(curves[id]) \/ RoundedBySell(curves[id])
    /\ \A c \in FixedCalls : ProductKept(c)
    /\ \A c \in HolderCalls(World) : ProductKept(c)

\* a curve carries the rounding of a buy and a sell is about to leave its own
C4_Witness ==
    \E c \in SellCalls(World) :
        /\ IsOk(Eval(World, c).resp)
        /\ ~Exact(curves[c.curve_id])
        /\ ~Exact(After(World, c).curves[c.curve_id])
        /\ ~RoundedByBuy(After(World, c).curves[c.curve_id])

\* ------------------------------------------------------------------ C5
FailsClean(c) ==
    LET out == Eval(World, c)
    IN  ~IsOk(out.resp) => Commit(World, out) = World

HasGraduation(out, id) == Printed(out, "curve-graduated", id) = 1
GraduationEvent(out, id) ==
    out.events[CHOOSE i \in DOMAIN out.events :
                 out.events[i].event = "curve-graduated" /\ out.events[i].curve_id = id]
PaidOut(out) == SelectSeq(out.transfers, LAMBDA t : t.from = LAUNCHPAD)
Payment(to, amount) ==
    IF amount > 0 THEN <<[from |-> LAUNCHPAD, to |-> to, amount |-> amount]>> ELSE <<>>
FeeOf(c, out) == IF c.op \in {"buy", "pay-via-curve"} THEN out.resp.val.fee ELSE 0
StxIn(c) == IF c.op \in {"buy", "pay-via-curve"} THEN c.amount ELSE 0

\* C7 -- Fee split at graduation: whenever a call graduates a curve, with F
\* the accrued fees at that moment (those accrued before plus the fee of the
\* triggering buy), the creator is sent exactly floor(F * creator-share-bps /
\* 10000) and the protocol fee recipient exactly the rest, F in total leaves
\* custody, and a share of 0 is not sent at all.
C7_FeeSplit ==
    \A c \in BuyCalls \cup PayCalls \cup GraduateCalls :
        LET out == Eval(World, c)
            id == c.curve_id
        IN  (IsOk(out.resp) /\ HasGraduation(out, id)) =>
              LET cv == curves[id]
                  F == cv.accrued_fees + FeeOf(c, out)
                  issuer == (F * cv.creator_share_bps) \div 10000
                  protocol == F - issuer
                  ev == GraduationEvent(out, id)
                  w == Commit(World, out)
              IN  /\ PaidOut(out) = Payment(cv.creator, issuer)
                                     \o Payment(protocol_fee_recipient, protocol)
                  /\ ev.total_fees = F
                  /\ ev.creator_share = issuer
                  /\ ev.protocol_share = protocol
                  /\ issuer + protocol = F
                  /\ w.stx[LAUNCHPAD] = stx[LAUNCHPAD] + StxIn(c) - F

\* a buy is about to graduate a curve whose fee pool does not split evenly:
\* both shares are paid and the remainder goes to the protocol
C7_Witness ==
    \E c \in BuyCalls :
        LET out == Eval(World, c)
        IN  /\ IsOk(out.resp) /\ HasGraduation(out, c.curve_id)
            /\ Len(PaidOut(out)) = 2
            /\ curves[c.curve_id].accrued_fees > 0
            /\ ((curves[c.curve_id].accrued_fees + out.resp.val.fee)
                 * curves[c.curve_id].creator_share_bps) % 10000 # 0

\* ------------------------------------------------------------------ C8
\* C8 -- Auto-graduation inside buy: a successful buy (direct or routed) adds
\* amount - fee to the reserve; if the resulting reserve is at or above the
\* graduation threshold the curve is graduated on return, its accrued fees are
\* 0 and the pool paid out includes the fee of this buy; otherwise the curve
\* stays ungraduated, the fee is accrued and nothing leaves custody.
C8_AutoGraduation ==
    \A c \in BuyCalls \cup PayCalls :
        LET out == Eval(World, c)
            id == c.curve_id
        IN  IsOk(out.resp) =>
              LET pre == curves[id]
                  post == Commit(World, out).curves[id]
                  fee == out.resp.val.fee
              IN  /\ ~pre.graduated
                  /\ post.stx_reserve = pre.stx_reserve + c.amount - fee
                  /\ IF post.stx_reserve >= pre.graduation_stx
                     THEN /\ post.graduated
                          /\ post.accrued_fees = 0
                          /\ HasGraduation(out, id)
                          /\ GraduationEvent(out, id).total_fees
                               = pre.accrued_fees + fee
                          /\ Commit(World, out).stx[LAUNCHPAD]
                               = stx[LAUNCHPAD] + c.amount - (pre.accrued_fees + fee)
                     ELSE /\ ~post.graduated
                          /\ post.accrued_fees = pre.accrued_fees + fee
                          /\ Printed(out, "curve-graduated", id) = 0
                          /\ PaidOut(out) = <<>>

\* Scenario A at reduced magnitude: on a fresh curve with fee 100 bps, creator
\* share 8000 bps and threshold 500, a buy of 1000 is about to graduate it,
\* paying the creator 8 and the protocol 2 of the fee of 10; and a buy that
\* stays below its threshold is about to succeed as well
C8_Witness ==
    /\ \E c \in BuyCalls :
          LET out == Eval(World, c)
          IN  /\ IsOk(out.resp) /\ c.amount = 1000
              /\ curves[c.curve_id].graduation_stx = 500
              /\ curves[c.curve_id].fee_bps = 100
              /\ curves[c.curve_id].creator_share_bps = 8000
              /\ curves[c.curve_id].stx_reserve = 0
              /\ After(World, c).curves[c.curve_id].graduated
              /\ PaidOut(out) = Payment(curves[c.curve_id].creator, 8)
                                 \o Payment(protocol_fee_recipient, 2)
    /\ \E c \in BuyCalls :
          /\ IsOk(Eval(World, c).resp)
          /\ ~After(World, c).curves[c.curve_id].graduated

\* ------------------------------------------------------------------ C9
RecordKept(id, c) == After(World, c).curves[id] = curves[id]

\* C9 -- Graduation is terminal: a graduated curve has accrued fees 0, and
\* whatever call comes next it is still graduated and no field of its record
\* has changed.
C9_GraduationTerminal ==
    \A id \in DOMAIN curves :
        curves[id].graduated =>
          /\ curves[id].accrued_fees = 0
          /\ \A c \in FixedCalls : RecordKept(id, c)
          /\ \A c \in HolderCalls(World) : RecordKept(id, c)

\* a graduated curve whose holder still has tokens to sell
C9_Witness ==
    \E c \in SellCalls(World) :
        /\ c.curve_id \in DOMAIN curves
        /\ curves[c.curve_id].graduated
        /\ c.amount > 0
        /\ Balance(World, c.curve_id, c.sender) >= c.amount
        /\ ~IsOk(Eval(World, c).resp)

\* ----------------------------------------------------------------- C10
OnGraduated(c) == c.curve_id \in DOMAIN curves /\ curves[c.curve_id].graduated

\* C10 as stated -- on a graduated curve every buy, sell and pay-via-curve
\* call returns ERR-GRADUATED, for every caller, amount and caller balance.
C10_AsStated ==
    \A c \in BuyCalls \cup SellCalls(World) \cup PayCalls :
        OnGraduated(c) => IsErrCode(Eval(World, c).resp, ERR_GRADUATED)

\* C10 amended -- on a graduated curve no buy, sell or pay-via-curve call
\* succeeds or changes anything.  Every buy returns ERR-GRADUATED; a
\* pay-via-curve returns it when its nonce is unused and its amount positive
\* (else the router's own ERR-NONCE-USED or ERR-ZERO-AMOUNT); a sell returns
\* it when the caller has a balance entry and sells between 1 and tokens-sold
\* tokens (a caller without an entry gets ERR-INSUFFICIENT-BALANCE first).
C10_TradingHalted ==
    \A c \in BuyCalls \cup SellCalls(World) \cup PayCalls :
        OnGraduated(c) =>
          LET out == Eval(World, c)
              cv == curves[c.curve_id]
          IN  /\ ~IsOk(out.resp)
              /\ Commit(World, out) = World
              /\ c.op = "buy" => IsErrCode(out.resp, ERR_GRADUATED)
              /\ c.op = "pay-via-curve" =>
                    IF c.nonce \in DOMAIN receipts
                    THEN IsErrCode(out.resp, ROUTER_ERR_NONCE_USED)
                    ELSE IF c.amount = 0
                    THEN IsErrCode(out.resp, ROUTER_ERR_ZERO_AMOUNT)
                    ELSE IsErrCode(out.resp, ERR_GRADUATED)
              /\ c.op = "sell" =>
                    IF <<c.curve_id, c.sender>> \notin DOMAIN balances
                    THEN IsErrCode(out.resp, ERR_INSUFFICIENT_BALANCE)
                    ELSE (c.amount >= 1 /\ c.amount <= cv.tokens_sold) =>
                            IsErrCode(out.resp, ERR_GRADUATED)

\* on a graduated curve a funded buy, a holder's sell within its balance and
\* a fresh-nonce payment are all turned down with ERR-GRADUATED
C10_Witness ==
    /\ \E c \in BuyCalls :
          OnGraduated(c) /\ c.amount > 0 /\ stx[c.sender] >= c.amount
          /\ IsErrCode(Eval(World, c).resp, ERR_GRADUATED)
    /\ \E c \in SellCalls(World) :
          OnGraduated(c) /\ c.amount > 0
          /\ Balance(World, c.curve_id, c.sender) >= c.amount
          /\ IsErrCode(Eval(World, c).resp, ERR_GRADUATED)
    /\ \E c \in PayCalls :
          OnGraduated(c) /\ c.amount > 0 /\ c.nonce \notin DOMAIN receipts
          /\ IsErrCode(Eval(World, c).resp, ERR_GRADUATED)

\* ----------------------------------------------------------------- C11
\* C11 -- Buy pricing: a successful buy returns fee = floor(amount * fee-bps
\* / 10000) and tokens-out = (total supply - tokens sold) - floor(k /
\* (virtual + reserve + amount - fee)), both on the curve as it was before
\* the call; fee and the net amount added to the reserve sum to the amount.
C11_BuyPricing ==
    \A c \in BuyCalls :
        LET out == Eval(World, c)
        IN  IsOk(out.resp) =>
              LET cv == curves[c.curve_id]
                  fee == (c.amount * cv.fee_bps) \div 10000
                  net_in == Commit(World, out).curves[c.curve_id].stx_reserve
                              - cv.stx_reserve
              IN  /\ out.resp.val.fee = fee
                  /\ out.resp.val.tokens_out =
                        (cv.total_supply - cv.tokens_sold)
                        - (cv.k \div (cv.virtual_stx + cv.stx_reserve + c.amount - fee))
                  /\ fee + net_in = c.amount

\* a buy charging a positive fee on a curve that has traded is about to
\* succeed, with the division of k leaving a remainder
C11_Witness ==
    \E c \in BuyCalls :
        LET out == Eval(World, c)
        IN  /\ IsOk(out.resp)
            /\ out.resp.val.fee > 0
            /\ curves[c.curve_id].tokens_sold > 0
            /\ curves[c.curve_id].k %
                 (StxSide(curves[c.curve_id]) + c.amount - out.resp.val.fee) # 0

\* ----------------------------------------------------------------- C12
\* tokens-out as buy computes it on the curve before the call
QuotedTokensOut(cv, amount) ==
    TokenSide(cv)
    - (cv.k \div (StxSide(cv) + amount - ((amount * cv.fee_bps) \div 10000)))

\* the conditions under which buy is to be rejected
BuyRejected(cv, c) ==
    \/ cv.graduated
    \/ c.amount = 0
    \/ TokenSide(cv) = 0
    \/ QuotedTokensOut(cv, c.amount) = 0
    \/ QuotedTokensOut(cv, c.amount) < c.min_out

\* C12 -- Buy rejection conditions: on an existing curve a buy fails and
\* changes nothing whenever the curve is graduated, the amount is 0, the
\* token reserve is 0, the computed tokens-out is 0 or below min-tokens-out
\* (ERR-SLIPPAGE when that is the only condition); a buy meeting none of
\* these whose caller holds at least the amount succeeds.
C12_BuyRejections ==
    \A c \in BuyCalls :
        c.curve_id \in DOMAIN curves =>
          LET cv == curves[c.curve_id]
              out == Eval(World, c)
          IN  /\ BuyRejected(cv, c) =>
                    ~IsOk(out.resp) /\ Commit(World, out) = World
              /\ (~cv.graduated /\ c.amount > 0 /\ TokenSide(cv) > 0
                  /\ QuotedTokensOut(cv, c.amount) > 0
                  /\ QuotedTokensOut(cv, c.amount) < c.min_out) =>
                    IsErrCode(out.resp, ERR_SLIPPAGE)
              /\ (~BuyRejected(cv, c) /\ stx[c.sender] >= c.amount) =>
                    IsOk(out.resp)

\* ----------------------------------------------------------------- C13
\* the STX ledger after the transfers xf, applied in order
RECURSIVE Settled(_, _)
Settled(ledger, xf) ==
    IF xf = <<>> THEN ledger
    ELSE Settled([ledger EXCEPT ![Head(xf).from] = @ - Head(xf).amount,
                                ![Head(xf).to] = @ + Head(xf).amount],
                 Tail(xf))

Held(curve_id, holder) ==
    IF <<curve_id, holder>> \in DOMAIN balances
    THEN balances[<<curve_id, holder>>] ELSE 0

\* C13 -- Buy effects and frame: a successful buy by caller c on curve k adds
\* tokens-out to c's balance on k, amount - fee to the reserve, tokens-out to
\* tokens-sold and fee to the accrued fees (which graduation, if triggered,
\* resets to 0 while setting graduated), and moves the amount from c to the
\* contract first; no other balance entry, no other curve, no other field of
\* the curve and none of receipts, defaults, counters, admins or registry
\* changes, and STX moves only by the buy transfer and graduation payouts.
C13_BuyFrame ==
    \A c \in BuyCalls :
        LET out == Eval(World, c)
        IN  IsOk(out.resp) =>
              LET k == c.curve_id
                  cv == curves[k]
                  w == Commit(World, out)
                  r == out.resp.val
                  traded == [cv EXCEPT !.stx_reserve = @ + c.amount - r.fee,
                                       !.tokens_sold = @ + r.tokens_out,
                                       !.accrued_fees = @ + r.fee]
              IN  /\ DOMAIN w.balances = DOMAIN balances \cup {<<k, c.sender>>}
                  /\ w.balances[<<k, c.sender>>] = Held(k, c.sender) + r.tokens_out
                  /\ \A b \in DOMAIN balances :
                        b # <<k, c.sender>> => w.balances[b] = balances[b]
                  /\ w.curves[k] =
                        IF HasGraduation(out, k)
                        THEN [traded EXCEPT !.graduated = TRUE, !.accrued_fees = 0]
                        ELSE traded
                  /\ DOMAIN w.curves = DOMAIN curves
                  /\ \A id \in DOMAIN curves : id # k => w.curves[id] = curves[id]
                  /\ Head(out.transfers) =
                        [from |-> c.sender, to |-> LAUNCHPAD, amount |-> c.amount]
                  /\ PaidOut(out) = Tail(out.transfers)
                  /\ ~HasGraduation(out, k) => Tail(out.transfers) = <<>>
                  /\ w.stx = Settled(stx, out.transfers)
                  /\ w = [World EXCEPT !.balances = w.balances,
                                       !.curves = w.curves, !.stx = w.stx]

\* a holder is about to buy more on a curve on which someone else holds too
C13_Witness ==
    \E c \in BuyCalls :
        /\ IsOk(Eval(World, c).resp)
        /\ Held(c.curve_id, c.sender) > 0
        /\ \E h \in Users : h # c.sender /\ Held(c.curve_id, h) > 0

\* ----------------------------------------------------------------- C14
\* C14 -- Sell pricing and effects: a successful sell of n tokens computes
\* gross = reserve - (floor(k / (total supply - tokens sold + n)) - virtual)
\* and fee = floor(gross * fee-bps / 10000) on the curve before the call and
\* returns stx-out = gross - fee; it takes n from the seller's balance and
\* from tokens-sold, gross from the reserve, adds fee to the accrued fees,
\* pays stx-out from the contract to the seller, and changes nothing else.
C14_SellPricing ==
    \A c \in SellCalls(World) :
        LET out == Eval(World, c)
        IN  IsOk(out.resp) =>
              LET k == c.curve_id
                  cv == curves[k]
                  w == Commit(World, out)
                  gross == cv.stx_reserve
                           - ((cv.k \div (cv.total_supply - cv.tokens_sold + c.amount))
                              - cv.virtual_stx)
                  fee == (gross * cv.fee_bps) \div 10000
              IN  /\ out.resp.val = [stx_out |-> gross - fee, fee |-> fee]
                  /\ w.balances =
                        [balances EXCEPT ![<<k, c.sender>>] = @ - c.amount]
                  /\ w.curves =
                        [curves EXCEPT ![k] =
                           [cv EXCEPT !.stx_reserve = @ - gross,
                                      !.tokens_sold = @ - c.amount,
                                      !.accrued_fees = @ + fee]]
                  /\ out.transfers =
                        <<[from |-> LAUNCHPAD, to |-> c.sender, amount |-> gross - fee]>>
                  /\ w.stx = Settled(stx, out.transfers)
                  /\ w = [World EXCEPT !.balances = w.balances,
                                       !.curves = w.curves, !.stx = w.stx]

\* a holder is about to sell part of its tokens and be charged a fee
C14_Witness ==
    \E c \in SellCalls(World) :
        LET out == Eval(World, c)
        IN  /\ IsOk(out.resp)
            /\ out.resp.val.fee > 0
            /\ c.amount < Held(c.curve_id, c.sender)

\* ----------------------------------------------------------------- C15
\* stx-out as sell computes it on the curve before the call
QuotedStxOut(cv, amount) ==
    LET gross == cv.stx_reserve
                 - ((cv.k \div (TokenSide(cv) + amount)) - cv.virtual_stx)
    IN  gross - ((gross * cv.fee_bps) \div 10000)

\* C15 -- Sell rejections: on an existing curve a sell fails and changes
\* nothing if the curve is graduated, the token amount is 0, the computed
\* stx-out is below min-stx-out, or the token amount exceeds the caller's
\* balance; on an ungraduated curve every token amount above the caller's
\* holdings, whether the caller holds nothing or something and however large
\* the amount, is answered with ERR-INSUFFICIENT-BALANCE.
C15_SellRejections ==
    \A c \in SellCalls(World) :
        c.curve_id \in DOMAIN curves =>
          LET cv == curves[c.curve_id]
              out == Eval(World, c)
              held == Held(c.curve_id, c.sender)
          IN  /\ (\/ cv.graduated
                  \/ c.amount = 0
                  \/ c.amount > held
                  \/ QuotedStxOut(cv, c.amount) < c.min_out) =>
                    ~IsOk(out.resp) /\ Commit(World, out) = World
              /\ (~cv.graduated /\ c.amount > held) =>
                    IsErrCode(out.resp, ERR_INSUFFICIENT_BALANCE)

\* ----------------------------------------------------------------- C16
\* the tokens of curve k held in the balances map b by the holders hs
RECURSIVE TotalHeld(_, _, _)
TotalHeld(b, k, hs) ==
    IF hs = {} THEN 0
    ELSE LET h == CHOOSE x \in hs : TRUE
         IN  (IF <<k, h>> \in DOMAIN b THEN b[<<k, h>>] ELSE 0)
             + TotalHeld(b, k, hs \ {h})

\* C16 -- transfer is a pure ledger move: it fails and changes nothing on a
\* self-transfer, a zero amount or an amount above the sender's balance; on
\* success the sender's balance falls and the recipient's rises by the amount
\* (the entry being created if absent), the total held on the curve is the
\* same, no STX moves and nothing but the balances map changes, on graduated
\* curves as on open ones.
C16_TransferLedgerMove ==
    \A c \in TransferCalls(World) :
        LET out == Eval(World, c)
            k == c.curve_id
            w == Commit(World, out)
        IN  /\ (c.to = c.sender \/ c.amount = 0 \/ c.amount > Held(k, c.sender)) =>
                  ~IsOk(out.resp) /\ w = World
            /\ IsOk(out.resp) =>
                  /\ DOMAIN w.balances = DOMAIN balances \cup {<<k, c.to>>}
                  /\ w.balances[<<k, c.sender>>] = Held(k, c.sender) - c.amount
                  /\ w.balances[<<k, c.to>>] = Held(k, c.to) + c.amount
                  /\ \A b \in DOMAIN balances :
                        b \notin {<<k, c.sender>>, <<k, c.to>>} =>
                          w.balances[b] = balances[b]
                  /\ TotalHeld(w.balances, k, Users) = TotalHeld(balances, k, Users)
                  /\ out.transfers = <<>>
                  /\ w = [World EXCEPT !.balances = w.balances]

\* on a graduated curve a holder is about to transfer tokens to someone
\* without a balance entry, while a transfer to itself is turned down
C16_Witness ==
    /\ \E c \in TransferCalls(World) :
          /\ IsOk(Eval(World, c).resp)
          /\ curves[c.curve_id].graduated
          /\ <<c.curve_id, c.to>> \notin DOMAIN balances
    /\ \E c \in TransferCalls(World) :
          /\ c.to = c.sender /\ c.amount > 0 /\ c.amount <= Held(c.curve_id, c.sender)
          /\ IsErrCode(Eval(World, c).resp, ERR_SELF_TRANSFER)

\* ----------------------------------------------------------------- C17
\* what get-price answers for curve k in world w
Price(w, k) == get_price(w, k).val

\* C17 as stated -- after every successful buy the price of the curve is at
\* least the price before it, after every successful sell at most the price
\* before it, and a successful transfer or graduate leaves it unchanged.
C17_AsStated ==
    /\ \A c \in BuyCalls :
          LET out == Eval(World, c)
          IN  IsOk(out.resp) =>
                Price(Commit(World, out), c.curve_id) >= Price(World, c.curve_id)
    /\ \A c \in SellCalls(World) :
          LET out == Eval(World, c)
          IN  IsOk(out.resp) =>
                Price(Commit(World, out), c.curve_id) <= Price(World, c.curve_id)
    /\ \A c \in TransferCalls(World) \cup GraduateCalls :
          LET out == Eval(World, c)
          IN  IsOk(out.resp) =>
                Price(Commit(World, out), c.curve_id) = Price(World, c.curve_id)

\* C17 -- the price moves with the trades as long as tokens are left in the
\* reserve: a successful buy that leaves tokens in the reserve does not lower
\* the price, a buy that takes the last token makes the price read 0; a
\* successful sell on a curve with tokens in the reserve does not raise the
\* price, on a depleted curve it lifts the price from 0; a successful transfer
\* or graduate, and the graduation a buy triggers, leave the price as the
\* reserves give it.
C17_PriceMonotone ==
    /\ \A c \in BuyCalls :
          LET out == Eval(World, c)
              k == c.curve_id
              w == Commit(World, out)
          IN  IsOk(out.resp) =>
                /\ TokenSide(w.curves[k]) > 0 => Price(w, k) >= Price(World, k)
                /\ TokenSide(w.curves[k]) = 0 => Price(w, k) = 0
                /\ Price(w, k) =
                     Price([World EXCEPT !.curves[k] =
                              [@ EXCEPT !.stx_reserve = w.curves[k].stx_reserve,
                                        !.tokens_sold = w.curves[k].tokens_sold]], k)
    /\ \A c \in SellCalls(World) :
          LET out == Eval(World, c)
              k == c.curve_id
              w == Commit(World, out)
          IN  IsOk(out.resp) =>
                /\ TokenSide(curves[k]) > 0 => Price(w, k) <= Price(World, k)
                /\ TokenSide(curves[k]) = 0 => Price(World, k) = 0
    /\ \A c \in TransferCalls(World) \cup GraduateCalls :
          LET out == Eval(World, c)
          IN  IsOk(out.resp) =>
                Price(Commit(World, out), c.curve_id) = Price(World, c.curve_id)

\* a buy is about to raise the price of a curve strictly, a sell to lower it
\* strictly and a transfer to succeed on it
C17_Witness ==
    \E k \in DOMAIN curves :
        /\ \E c \in BuyCalls :
              /\ c.curve_id = k /\ IsOk(Eval(World, c).resp)
              /\ Price(After(World, c), k) > Price(World, k)
        /\ \E c \in SellCalls(World) :
              /\ c.curve_id = k /\ IsOk(Eval(World, c).resp)
              /\ Price(After(World, c), k) < Price(World, k)
        /\ \E c \in TransferCalls(World) :
              c.curve_id = k /\ IsOk(Eval(World, c).resp)

\* ----------------------------------------------------------------- C18
\* the sale, by the buyer and at once, of exactly the tokens the buy gave
SellBack(w, c, bought) ==
    sell(w, c.sender, c.curve_id, bought.resp.val.tokens_out, 0)

\* C18 -- Round-trip bound: when a successful buy that does not graduate the
\* curve is followed at once by the buyer selling exactly the tokens received
\* and the sale succeeds, the STX paid out is at most the STX paid in minus
\* the buy fee and the sell fee, is strictly less than the STX paid in unless
\* both fees are 0, and neither the curve's reserve nor the contract's STX
\* ends below where it started.
C18_RoundTrip ==
    \A c \in BuyCalls :
        LET bought == Eval(World, c)
            w1 == Commit(World, bought)
        IN  (IsOk(bought.resp) /\ ~w1.curves[c.curve_id].graduated) =>
              LET sold == SellBack(w1, c, bought)
                  w2 == Commit(w1, sold)
                  buyFee == bought.resp.val.fee
              IN  IsOk(sold.resp) =>
                    LET sellFee == sold.resp.val.fee
                        amountOut == sold.resp.val.stx_out
                    IN  /\ amountOut <= c.amount - buyFee - sellFee
                        /\ (buyFee + sellFee > 0) => amountOut < c.amount
                        /\ w2.curves[c.curve_id].stx_reserve
                              >= curves[c.curve_id].stx_reserve
                        /\ w2.stx[LAUNCHPAD] >= stx[LAUNCHPAD]
                        /\ w2.stx[c.sender] <= stx[c.sender]

\* on a curve that has been traded, a buy on which a fee is charged is about
\* to succeed without graduating the curve and its tokens can be sold back
C18_Witness ==
    \E c \in BuyCalls :
        LET bought == Eval(World, c)
            w1 == Commit(World, bought)
        IN  /\ IsOk(bought.resp)
            /\ curves[c.curve_id].tokens_sold > 0
            /\ ~w1.curves[c.curve_id].graduated
            /\ bought.resp.val.fee > 0
            /\ IsOk(SellBack(w1, c, bought).resp)
            /\ SellBack(w1, c, bought).resp.val.fee > 0

\* ----------------------------------------------------------------- C19
\* the price the issuer of curve k registered with the agent registry
MinimumPrice(w, k) == w.agents[w.curves[k].creator].price_per_task

\* C19 -- Floor-price policy: a payment with an unused nonce and a positive
\* amount on an existing curve fails with an error, executes no buy and stores
\* no receipt when the amount is below the price the curve's issuer
\* registered, and fares exactly as the buy itself when the amount equals
\* that price.
C19_FloorPrice ==
    \A c \in PayCalls :
        (/\ c.curve_id \in DOMAIN curves
         /\ nonce_unused(World, c.nonce)
         /\ c.amount > 0) =>
          LET out == Eval(World, c)
              w == Commit(World, out)
              bought == buy(World, c.sender, c.curve_id, c.amount, c.min_out)
          IN  /\ c.amount < MinimumPrice(World, c.curve_id) =>
                    /\ IsErr(out.resp)
                    /\ out.transfers = <<>>
                    /\ c.nonce \notin DOMAIN w.receipts
                    /\ w = World
              /\ c.amount = MinimumPrice(World, c.curve_id) =>
                    (IsOk(out.resp) <=> IsOk(bought.resp))

\* ----------------------------------------------------------------- C20
\* the error codes the router defines, and those the launchpad defines
RouterErrors ==
    {ROUTER_ERR_NONCE_USED, ROUTER_ERR_ZERO_AMOUNT, ROUTER_ERR_CURVE_NOT_FOUND,
     ROUTER_ERR_UNAUTHORIZED}
LaunchpadErrors ==
    {ERR_NOT_REGISTERED, ERR_ALREADY_LAUNCHED, ERR_CURVE_NOT_FOUND, ERR_GRADUATED,
     ERR_ZERO_AMOUNT, ERR_INSUFFICIENT_BALANCE, ERR_SLIPPAGE, ERR_NOT_ADMIN,
     ERR_OVERFLOW, ERR_SELF_TRANSFER, ERR_CONTRACT_CALL, ERR_INVALID_PARAMS,
     ERR_NOT_GRADUATED, ERR_SOLD_OUT, ERR_INVALID_FEE}

\* the failures of the pricing engine a payment may meet
AmmFailures == {ERR_SLIPPAGE, ERR_SOLD_OUT, ERR_GRADUATED}

\* C20 -- Error layering: a payment with a used nonce fails with the router's
\* nonce error whatever else holds, also when the buy would fail; with an
\* unused nonce, a zero amount fails with the router's zero-amount error and
\* a positive amount below the issuer's registered price fails with an error
\* that is not one of the launchpad's; a payment past the router's checks
\* whose buy fails on slippage, a sold-out reserve or a graduated curve
\* returns the launchpad's response unchanged; and no code belongs to both
\* contracts.
C20_ErrorLayering ==
    /\ RouterErrors \cap LaunchpadErrors = {}
    /\ \A c \in PayCalls :
          LET out == Eval(World, c)
              bought == buy(World, c.sender, c.curve_id, c.amount, c.min_out)
              floored == /\ c.curve_id \in DOMAIN curves
                         /\ c.amount < MinimumPrice(World, c.curve_id)
          IN  /\ ~nonce_unused(World, c.nonce) =>
                    IsErrCode(out.resp, ROUTER_ERR_NONCE_USED)
              /\ (nonce_unused(World, c.nonce) /\ c.amount = 0) =>
                    IsErrCode(out.resp, ROUTER_ERR_ZERO_AMOUNT)
              /\ (nonce_unused(World, c.nonce) /\ c.amount > 0 /\ floored) =>
                    IsErr(out.resp) /\ out.resp.val \notin LaunchpadErrors
              /\ (/\ nonce_unused(World, c.nonce) /\ c.amount > 0 /\ ~floored
                  /\ IsErr(bought.resp) /\ bought.resp.val \in AmmFailures) =>
                    out.resp = bought.resp

\* ----------------------------------------------------------------- C21
\* C21 -- Nonce availability: for every nonce, is-nonce-available answers
\* true exactly when verify-payment answers none, which is exactly when no
\* payment carrying the nonce has succeeded; a payment that fails leaves
\* everything as it was, its nonce as available as before, and a payment that
\* succeeds makes its nonce unavailable and its receipt readable.
C21_NonceAvailability ==
    /\ \A n \in Nonces :
          /\ is_nonce_available(World, n) <=> (verify_payment(World, n) = <<>>)
          /\ is_nonce_available(World, n) <=> (payments_made[n] = 0)
    /\ \A c \in PayCalls :
          LET out == Eval(World, c)
              w == Commit(World, out)
          IN  /\ ~IsOk(out.resp) =>
                    /\ w = World
                    /\ is_nonce_available(w, c.nonce)
                          <=> is_nonce_available(World, c.nonce)
              /\ IsOk(out.resp) =>
                    /\ is_nonce_available(World, c.nonce)
                    /\ ~is_nonce_available(w, c.nonce)
                    /\ verify_payment(w, c.nonce) =
                          <<receipt(c.sender, c.curve_id, c.amount,
                                    out.resp.val.tokens_received, out.resp.val.fee)>>

\* one nonce is spent and the other is free; with the free nonce one payment
\* is about to fail on slippage and another is about to succeed
C21_Witness ==
    \E n \in Nonces, n2 \in Nonces :
        /\ ~is_nonce_available(World, n)
        /\ is_nonce_available(World, n2)
        /\ \E c \in PayCalls :
              c.nonce = n2 /\ IsErrCode(Eval(World, c).resp, ERR_SLIPPAGE)
        /\ \E c \in PayCalls : c.nonce = n2 /\ IsOk(Eval(World, c).resp)

\* ----------------------------------------------------------------- C22
\* the sum of stx-amount over the receipts rs stored under the nonces ns
RECURSIVE VolumeOf(_, _)
VolumeOf(rs, ns) ==
    IF ns = {} THEN 0
    ELSE LET n == CHOOSE x \in ns : TRUE
         IN  rs[n].stx_amount + VolumeOf(rs, ns \ {n})

\* the two statistics are left as they are by the evaluation out of a call
StatsKept(out) ==
    LET w == Commit(World, out)
    IN  /\ w.total_payments = total_payments
        /\ w.total_volume_stx = total_volume_stx

\* C22 -- Router statistics: total-payments is the number of stored receipts
\* and total-volume-stx the sum of their amounts; a successful pay-via-curve
\* adds 1 and its amount to them; a failed pay-via-curve, a buy or sell made
\* directly on the launchpad and the router's admin functions leave both as
\* they are, so neither ever decreases.
C22_RouterStatistics ==
    /\ total_payments = Cardinality(DOMAIN receipts)
    /\ total_volume_stx = VolumeOf(receipts, DOMAIN receipts)
    /\ \A c \in PayCalls :
          LET out == Eval(World, c)
              w == Commit(World, out)
          IN  IF IsOk(out.resp)
              THEN /\ w.total_payments = total_payments + 1
                   /\ w.total_volume_stx = total_volume_stx + c.amount
                   /\ c.amount > 0
              ELSE StatsKept(out)
    /\ \A c \in BuyCalls \cup RouterTransferAdminCalls \cup RouterAcceptAdminCalls :
          StatsKept(Eval(World, c))
    /\ \A c \in SellCalls(World) : StatsKept(Eval(World, c))

\* two payments of different amounts are recorded, and a direct buy and a
\* direct sell are about to succeed
C22_Witness ==
    /\ total_payments = 2
    /\ \E n \in DOMAIN receipts, n2 \in DOMAIN receipts :
          receipts[n].stx_amount # receipts[n2].stx_amount
    /\ \E c \in BuyCalls : IsOk(Eval(World, c).resp)
    /\ \E c \in SellCalls(World) : IsOk(Eval(World, c).resp)

\* ----------------------------------------------------------------- C23
\* the curves whose creator is the issuer a
CurvesOf(a) == {k \in DOMAIN curves : curves[k].creator = a}

\* C23 -- One curve per issuer: every issuer is the creator of at most one
\* curve; the agent-curve index has an entry exactly for the issuers who have
\* a curve and it names that curve; a launch by an issuer who has a curve
\* fails with ERR-ALREADY-LAUNCHED, whatever the name and symbol, and creates
\* nothing.
C23_OneCurvePerIssuer ==
    /\ \A a \in Users : Cardinality(CurvesOf(a)) <= 1
    /\ DOMAIN agent_curve = {a \in Users : CurvesOf(a) # {}}
    /\ \A a \in DOMAIN agent_curve : CurvesOf(a) = {agent_curve[a]}
    /\ \A c \in LaunchCalls :
          CurvesOf(c.sender) # {} =>
            LET out == Eval(World, c)
            IN  /\ IsErrCode(out.resp, ERR_ALREADY_LAUNCHED)
                /\ Commit(World, out) = World

\* two issuers have a curve each, one launched under other defaults than the
\* other, and a second launch by one of them is about to be turned down
C23_Witness ==
    /\ Cardinality(DOMAIN agent_curve) = 2
    /\ \E a \in DOMAIN agent_curve, b \in DOMAIN agent_curve :
          curves[agent_curve[a]].total_supply # curves[agent_curve[b]].total_supply
    /\ \E c \in LaunchCalls :
          /\ c.name # "" /\ c.symbol # ""
          /\ IsErrCode(Eval(World, c).resp, ERR_ALREADY_LAUNCHED)

\* ----------------------------------------------------------------- C24
\* the record launch creates for sender under the defaults d
FreshCurve(sender, name, symbol, d) ==
    [creator |-> sender, name |-> name, symbol |-> symbol,
     total_supply |-> d.total_supply, virtual_stx |-> d.virtual_stx,
     k |-> d.virtual_stx * d.total_supply,
     stx_reserve |-> 0, tokens_sold |-> 0,
     graduation_stx |-> d.graduation_stx, fee_bps |-> d.fee_bps,
     accrued_fees |-> 0, graduated |-> FALSE, created_at |-> stacks_block_height,
     creator_share_bps |-> d.creator_share_bps]

\* C24 -- Launch preconditions and initial state: a launch by a caller who is
\* not a registered agent fails with ERR-NOT-REGISTERED, a launch with an
\* empty name or symbol fails (with ERR-INVALID-PARAMS when the caller is
\* registered and has no curve), and neither changes anything; a launch by a
\* registered agent without a curve, with name and symbol non-empty, succeeds
\* and creates under the next id a curve with reserve 0, tokens-sold 0,
\* accrued fees 0, graduated false, the current defaults and
\* k = virtual-stx * total-supply, records it in the agent-curve index and
\* changes nothing else; no other launch succeeds.
C24_LaunchPreconditions ==
    \A c \in LaunchCalls :
        LET out == Eval(World, c)
            w == Commit(World, out)
            registered == c.sender \in DOMAIN agents
            fresh == CurvesOf(c.sender) = {}
            named == c.name # "" /\ c.symbol # ""
        IN  /\ ~registered =>
                  IsErrCode(out.resp, ERR_NOT_REGISTERED) /\ w = World
            /\ ~named => ~IsOk(out.resp) /\ w = World
            /\ (registered /\ fresh /\ ~named) =>
                  IsErrCode(out.resp, ERR_INVALID_PARAMS)
            /\ IsOk(out.resp) <=> (registered /\ fresh /\ named)
            /\ IsOk(out.resp) =>
                  LET k == out.resp.val
                  IN  /\ k \notin DOMAIN curves
                      /\ w.curves = MapSet(curves, k,
                            FreshCurve(c.sender, c.name, c.symbol, defaults))
                      /\ w.curves[k].k
                            = w.curves[k].virtual_stx * w.curves[k].total_supply
                      /\ w.agent_curve = MapSet(agent_curve, c.sender, k)
                      /\ w = [World EXCEPT !.curves = w.curves,
                                           !.agent_curve = w.agent_curve,
                                           !.total_curves = total_curves + 1]

\* under defaults the admin has changed, a registered agent without a curve
\* is about to launch, an unregistered caller is about to be turned down and
\* so is a registered one giving an empty symbol
C24_Witness ==
    /\ defaults # InitialDefaults
    /\ \E c \in LaunchCalls : IsOk(Eval(World, c).resp)
    /\ \E c \in LaunchCalls :
          c.name # "" /\ c.symbol # ""
          /\ IsErrCode(Eval(World, c).resp, ERR_NOT_REGISTERED)
    /\ \E c \in LaunchCalls :
          c.name # "" /\ c.symbol = ""
          /\ IsErrCode(Eval(World, c).resp, ERR_INVALID_PARAMS)

\* ----------------------------------------------------------------- C25
\* the ids and the counter of curves are left as they are by the evaluation
\* out of a launch
IdsKept(out) ==
    LET w == Commit(World, out)
    IN  DOMAIN w.curves = DOMAIN curves /\ w.total_curves = total_curves

\* C25 -- Curve ids: the existing curves carry the ids 0 .. total-curves - 1,
\* so total-curves is their number; a successful launch returns total-curves,
\* an id no curve has, leaves the existing curves in place and raises
\* total-curves by 1, so that the k-th successful launch returns k - 1; a
\* failed launch leaves ids and counter as they are.
C25_CurveIds ==
    /\ DOMAIN curves = 0 .. (total_curves - 1)
    /\ total_curves = Cardinality(DOMAIN curves)
    /\ \A c \in LaunchCalls :
          LET out == Eval(World, c)
              w == Commit(World, out)
          IN  IF IsOk(out.resp)
              THEN /\ out.resp.val = Cardinality(DOMAIN curves)
                   /\ out.resp.val \notin DOMAIN curves
                   /\ DOMAIN w.curves = DOMAIN curves \cup {out.resp.val}
                   /\ \A k \in DOMAIN curves : w.curves[k] = curves[k]
                   /\ w.total_curves = total_curves + 1
              ELSE IdsKept(out)

\* one curve exists and has been traded; a second launch is about to return
\* id 1 and a launch by the first issuer is about to fail
C25_Witness ==
    /\ total_curves = 1
    /\ curves[0].tokens_sold > 0
    /\ \E c \in LaunchCalls : Eval(World, c).resp = Ok(1)
    /\ \E c \in LaunchCalls :
          c.name # "" /\ c.symbol # "" /\ c.sender \in DOMAIN agents
          /\ ~IsOk(Eval(World, c).resp)

\* ----------------------------------------------------------------- C26
\* the launch-time parameters of a curve record
ParamsOf(cv) ==
    Params(cv.total_supply, cv.virtual_stx, cv.graduation_stx, cv.fee_bps,
           cv.creator_share_bps)

\* C26 -- Launch-time snapshot: a successful set-defaults replaces the
\* defaults by its arguments and changes nothing else, so every existing
\* curve keeps its total supply, virtual reserve, k, graduation threshold,
\* fee rate and creator share; a launch that succeeds right after it creates
\* a curve that carries exactly the new defaults and k = virtual * supply of
\* them; and every curve carries parameters that set-defaults accepts or
\* those of deployment.
C26_LaunchSnapshot ==
    /\ \A c \in SetDefaultsCalls :
          LET out == Eval(World, c)
              w == Commit(World, out)
          IN  IsOk(out.resp) =>
                /\ w = [World EXCEPT !.defaults = c.params]
                /\ w.curves = curves
                /\ \A l \in LaunchCalls :
                      LET launched == Eval(w, l)
                          w2 == Commit(w, launched)
                      IN  IsOk(launched.resp) =>
                            LET cv == w2.curves[launched.resp.val]
                            IN  /\ ParamsOf(cv) = c.params
                                /\ cv.k = c.params.virtual_stx * c.params.total_supply
                                /\ \A k \in DOMAIN curves : w2.curves[k] = curves[k]
    /\ \A k \in DOMAIN curves :
          ParamsOf(curves[k]) \in DefaultChoices \cup {InitialDefaults}

\* a curve exists whose parameters differ from the current defaults, the
\* admin is about to change the defaults again, and a launch is possible
C26_Witness ==
    /\ \E k \in DOMAIN curves : ParamsOf(curves[k]) # defaults
    /\ \E c \in SetDefaultsCalls :
          /\ IsOk(Eval(World, c).resp)
          /\ c.params # defaults
          /\ \E k \in DOMAIN curves : ParamsOf(curves[k]) # c.params
          /\ \E l \in LaunchCalls : IsOk(Eval(After(World, c), l).resp)

\* ----------------------------------------------------------------- C27
\* the fields of a curve record that launch sets and no trade is to change
Fixed(cv) ==
    [k |-> cv.k, total_supply |-> cv.total_supply, virtual_stx |-> cv.virtual_stx,
     graduation_stx |-> cv.graduation_stx, fee_bps |-> cv.fee_bps,
     creator_share_bps |-> cv.creator_share_bps, creator |-> cv.creator,
     name |-> cv.name, symbol |-> cv.symbol, created_at |-> cv.created_at]

\* the call c leaves the launch-time fields of every existing curve alone
FixedKept(c) ==
    LET w == After(World, c)
    IN  \A id \in DOMAIN curves :
            id \in DOMAIN w.curves /\ Fixed(w.curves[id]) = Fixed(curves[id])

\* C27 -- Immutable curve parameters: every curve has k = virtual-stx *
\* total-supply, and no call of any contract - launch, buy, sell, transfer,
\* graduate, pay-via-curve or an admin function, successful or not - changes
\* the k, total supply, virtual reserve, graduation threshold, fee rate,
\* creator share or creator of an existing curve.
C27_ImmutableParameters ==
    /\ \A id \in DOMAIN curves :
          curves[id].k = curves[id].virtual_stx * curves[id].total_supply
    /\ \A c \in FixedCalls : FixedKept(c)
    /\ \A c \in HolderCalls(World) : FixedKept(c)

\* a curve launched under changed defaults has been traded, and a buy, a
\* sell and a further change of the defaults are about to succeed
C27_Witness ==
    /\ \E a \in DOMAIN curves :
          ParamsOf(curves[a]) # InitialDefaults /\ curves[a].stx_reserve > 0
    /\ \E c \in BuyCalls : IsOk(Eval(World, c).resp)
    /\ \E c \in SellCalls(World) : IsOk(Eval(World, c).resp)
    /\ \E c \in SetDefaultsCalls : IsOk(Eval(World, c).resp)

\* ----------------------------------------------------------------- C28
\* C28 as stated -- in every state and for every argument get-buy-quote
\* answers what buy with min-tokens-out 0 answers, and get-sell-quote what
\* sell with min-stx-out 0 answers.
C28_AsStated ==
    /\ \A c \in BuyCalls :
          c.min_out = 0 =>
            get_buy_quote(World, c.curve_id, c.amount).resp = Eval(World, c).resp
    /\ \A c \in SellCalls(World) :
          c.min_out = 0 =>
            get_sell_quote(World, c.curve_id, c.amount).resp = Eval(World, c).resp

\* C28 -- Quotes equal successful trades: whenever a buy succeeds,
\* get-buy-quote for its curve and amount answers the tokens-out and fee the
\* buy returns, and whenever a sell succeeds, get-sell-quote answers the
\* stx-out and fee the sell returns; a buy faults exactly when its quote
\* faults, and a sell by a holder of the curve exactly when its quote faults;
\* the quotes change nothing and print nothing.
C28_QuotesEqualTrades ==
    /\ \A c \in BuyCalls :
          LET out == Eval(World, c)
              quote == get_buy_quote(World, c.curve_id, c.amount)
          IN  /\ IsOk(out.resp) => quote.resp = out.resp
              /\ (out.resp = Abort) <=> (quote.resp = Abort)
              /\ quote.st = World /\ quote.events = <<>> /\ quote.transfers = <<>>
    /\ \A c \in SellCalls(World) :
          LET out == Eval(World, c)
              quote == get_sell_quote(World, c.curve_id, c.amount)
          IN  /\ IsOk(out.resp) => quote.resp = out.resp
              /\ <<c.curve_id, c.sender>> \in DOMAIN balances =>
                    ((out.resp = Abort) <=> (quote.resp = Abort))
              /\ quote.st = World /\ quote.events = <<>> /\ quote.transfers = <<>>

\* a buy and a sell on which fees are charged are about to succeed, and a
\* buy for which a quote with tokens is given is about to be refused
C28_Witness ==
    /\ \E c \in BuyCalls :
          IsOk(Eval(World, c).resp) /\ Eval(World, c).resp.val.fee > 0
    /\ \E c \in SellCalls(World) :
          IsOk(Eval(World, c).resp) /\ Eval(World, c).resp.val.fee > 0
    /\ \E c \in BuyCalls :
          /\ IsErr(Eval(World, c).resp)
          /\ IsOk(get_buy_quote(World, c.curve_id, c.amount).resp)
          /\ get_buy_quote(World, c.curve_id, c.amount).resp.val.tokens_out > 0

\* ----------------------------------------------------------------- C29
\* p is the quotient of num by den rounded down
IsFloor(p, num, den) == p * den <= num /\ num < (p + 1) * den

\* C29 -- get-price answers, for an existing curve with tokens in the
\* reserve, (virtual-stx + stx-reserve) * PRICE-SCALE / (total-supply -
\* tokens-sold) rounded down; for a curve whose token reserve is 0 it answers
\* 0; it never faults; for a curve that does not exist it answers
\* ERR-CURVE-NOT-FOUND; and right after a launch, with the reserve at 0, it
\* answers virtual-stx * PRICE-SCALE / total-supply rounded down.
C29_PriceFormula ==
    /\ \A id \in CurveIds :
          LET resp == get_price(World, id)
          IN  IF id \notin DOMAIN curves THEN resp = Err(ERR_CURVE_NOT_FOUND)
              ELSE /\ IsOk(resp)
                   /\ TokenSide(curves[id]) >= 0
                   /\ TokenSide(curves[id]) = 0 => resp.val = 0
                   /\ TokenSide(curves[id]) > 0 =>
                         IsFloor(resp.val, StxSide(curves[id]) * PRICE_SCALE,
                                 TokenSide(curves[id]))
    /\ \A c \in LaunchCalls :
          LET out == Eval(World, c)
          IN  IsOk(out.resp) =>
                LET resp == get_price(Commit(World, out), out.resp.val)
                IN  /\ IsOk(resp)
                    /\ IsFloor(resp.val, defaults.virtual_stx * PRICE_SCALE,
                               defaults.total_supply)

\* a curve with a positive reserve has no token left and its price reads 0,
\* while a registered agent is about to launch a curve
C29_Witness ==
    /\ \E id \in DOMAIN curves :
          /\ TokenSide(curves[id]) = 0
          /\ curves[id].stx_reserve > 0
          /\ get_price(World, id) = Ok(0)
    /\ \E c \in LaunchCalls : IsOk(Eval(World, c).resp)

\* ----------------------------------------------------------------- C30
\* the call c completes with a response
Completes(c) == Eval(World, c).resp # Abort

\* C30 -- Discriminated results only: every launch, buy, sell, transfer,
\* graduate and pay-via-curve call, and every get-buy-quote, get-sell-quote
\* and get-price, for every argument, completes with (ok ..) or (err ..);
\* none ends in a runtime arithmetic fault.
C30_DiscriminatedResults ==
    /\ \A c \in LaunchCalls \cup BuyCalls \cup GraduateCalls \cup PayCalls :
          Completes(c)
    /\ \A c \in HolderCalls(World) : Completes(c)
    /\ \A id \in CurveIds :
          /\ get_price(World, id) # Abort
          /\ \A a \in StxAmounts : get_buy_quote(World, id, a).resp # Abort
          /\ \A a \in TokenAmounts : get_sell_quote(World, id, a).resp # Abort

\* ----------------------------------------------------------------- C31
\* C31 -- graduate on a curve whose reserve is below its graduation threshold,
\* called by anyone, returns ERR-NOT-GRADUATED, moves no STX and changes
\* nothing.
C31_GraduateBelowThreshold ==
    \A c \in GraduateCalls :
        (/\ c.curve_id \in DOMAIN curves
         /\ curves[c.curve_id].stx_reserve < curves[c.curve_id].graduation_stx) =>
          LET out == Eval(World, c)
          IN  /\ out.resp = Err(ERR_NOT_GRADUATED)
              /\ out.transfers = <<>>
              /\ out.events = <<>>
              /\ After(World, c) = World

\* a curve that has been traded holds fees and a reserve below its threshold,
\* and someone who is neither its creator nor the admin calls graduate on it
C31_Witness ==
    \E c \in GraduateCalls :
        /\ c.curve_id \in DOMAIN curves
        /\ curves[c.curve_id].accrued_fees > 0
        /\ curves[c.curve_id].stx_reserve > 0
        /\ curves[c.curve_id].stx_reserve < curves[c.curve_id].graduation_stx
        /\ c.sender \notin {curves[c.curve_id].creator, admin}
        /\ IsErr(Eval(World, c).resp)

\* ----------------------------------------------------------------- C32
\* C32 -- Graduation can be triggered by anyone: after a buy that takes a
\* curve's reserve to or above its graduation threshold, a graduate call on
\* that curve by a third party (neither the buyer nor the creator) returns
\* (ok true).
C32_AnyoneGraduates ==
    \A c \in BuyCalls :
        LET out == Eval(World, c)
            bought == After(World, c)
        IN  (/\ IsOk(out.resp)
             /\ bought.curves[c.curve_id].stx_reserve
                  >= bought.curves[c.curve_id].graduation_stx) =>
              \A g \in GraduateCalls :
                  (/\ g.curve_id = c.curve_id
                   /\ g.sender \notin {c.sender, curves[c.curve_id].creator}) =>
                    Eval(bought, g).resp = Ok(TRUE)

\* ----------------------------------------------------------------- C33
\* C33 -- pay-via-curve with an unused nonce and a positive amount on a curve
\* id that does not exist fails with the router's own ERR-CURVE-NOT-FOUND
\* (u1502), stores no receipt and leaves the nonce available.
C33_RouterCurveLookup ==
    \A c \in PayCalls :
        (/\ c.curve_id \notin DOMAIN curves
         /\ c.nonce \notin DOMAIN receipts
         /\ c.amount > 0) =>
          LET out == Eval(World, c)
          IN  /\ out.resp = Err(ROUTER_ERR_CURVE_NOT_FOUND)
              /\ After(World, c).receipts = receipts
              /\ is_nonce_available(After(World, c), c.nonce)

\* ----------------------------------------------------------------- C34
\* the data as they would be with the sender holding exactly the amount
Funded(c) == [World EXCEPT !.stx[c.sender] = c.amount]

\* C34 -- a buy, direct or through pay-via-curve, that would succeed if the
\* caller held the amount, made by a caller holding less than the amount,
\* fails with ERR-INSUFFICIENT-BALANCE (u1405) and changes nothing.
C34_InsufficientFunds ==
    \A c \in BuyCalls \cup PayCalls :
        (/\ stx[c.sender] < c.amount
         /\ IsOk(Eval(Funded(c), c).resp)) =>
          /\ Eval(World, c).resp = Err(ERR_INSUFFICIENT_BALANCE)
          /\ After(World, c) = World

\* ----------------------------------------------------------------- C35
\* the parameter tuple p is within the bounds set-defaults enforces
WithinBounds(p) ==
    /\ p.total_supply > 0 /\ p.virtual_stx > 0 /\ p.graduation_stx > 0
    /\ p.fee_bps <= 500 /\ p.creator_share_bps <= 10000

\* C35 -- Parameter bounds: set-defaults succeeds exactly for the current
\* admin with total-supply, virtual-stx and graduation-stx positive, fee-bps
\* <= 500 and creator-share-bps <= 10000, and then stores the tuple; a
\* rejected call changes nothing; the defaults and every curve are within
\* these bounds in every reachable state.
C35_ParameterBounds ==
    /\ \A c \in SetDefaultsCalls :
          LET out == Eval(World, c)
          IN  /\ IsOk(out.resp) <=> (c.sender = admin /\ WithinBounds(c.params))
              /\ IsOk(out.resp) => After(World, c).defaults = c.params
              /\ ~IsOk(out.resp) => IsErr(out.resp) /\ After(World, c) = World
    /\ WithinBounds(defaults)
    /\ \A id \in DOMAIN curves : WithinBounds(ParamsOf(curves[id]))

\* a curve was launched with the fee at its limit after the admin changed the
\* defaults, the defaults have been changed again since, and set-defaults is
\* about to be refused to someone else and to the admin for a fee above the
\* limit
C35_Witness ==
    /\ \E id \in DOMAIN curves :
          /\ curves[id].fee_bps = MAX_FEE_BPS
          /\ ParamsOf(curves[id]) # defaults
    /\ defaults # InitialDefaults
    /\ \E c \in SetDefaultsCalls :
          /\ c.sender # admin /\ WithinBounds(c.params)
          /\ Eval(World, c).resp = Err(ERR_NOT_ADMIN)
    /\ \E c \in SetDefaultsCalls :
          /\ c.sender = admin /\ c.params.fee_bps > MAX_FEE_BPS
          /\ Eval(World, c).resp = Err(ERR_INVALID_FEE)

\* ----------------------------------------------------------------- C36
\* the buys and sells that set no minimum: min-tokens-out and min-stx-out only
\* add a refusal, so these are all the trades that can succeed
UnguardedBuys == { c \in BuyCalls : c.min_out = 0 }
UnguardedSells(w) == { c \in SellCalls(w) : c.min_out = 0 }

\* the tokens of curve k sold in w, none for a curve that does not exist
Sold(w, k) == IF k \in DOMAIN w.curves THEN w.curves[k].tokens_sold ELSE 0

\* the tokens of curve k held by all holders in w
Supply(w, k) == TotalHeld(w.balances, k, Principals)

\* C36 -- Ledger conservation: on every curve the balances of all holders sum
\* to tokens-sold, which never exceeds total-supply; every balance entry
\* belongs to an existing curve; a successful buy raises the sum by its
\* tokens-out, a successful sell lowers it by the amount sold, a transfer
\* leaves it as it is, and no register-agent, launch, graduate,
\* set-protocol-fee-recipient, transfer-admin or accept-admin call changes any
\* balance or any curve's tokens-sold.
C36_LedgerConservation ==
    /\ \A k \in DOMAIN curves :
          /\ Supply(World, k) = curves[k].tokens_sold
          /\ curves[k].tokens_sold <= curves[k].total_supply
    /\ \A e \in DOMAIN balances : e[1] \in DOMAIN curves /\ e[2] \in Principals
    /\ \A c \in UnguardedBuys : \A out \in {Eval(World, c)} :
          IsOk(out.resp) =>
            \A k \in CurveIds :
                Supply(out.st, k) = Supply(World, k)
                    + (IF k = c.curve_id THEN out.resp.val.tokens_out ELSE 0)
    /\ \A c \in UnguardedSells(World) : \A out \in {Eval(World, c)} :
          IsOk(out.resp) =>
            \A k \in CurveIds :
                Supply(out.st, k) = Supply(World, k)
                    - (IF k = c.curve_id THEN c.amount ELSE 0)
    /\ \A c \in RegisterCalls \cup LaunchCalls \cup GraduateCalls
                \cup SetRecipientCalls \cup TransferAdminCalls \cup AcceptAdminCalls :
          \A w \in {After(World, c)} :
              /\ w.balances = balances
              /\ \A k \in CurveIds : Sold(w, k) = Sold(World, k)
    /\ \A c \in TransferCalls(World) : \A out \in {Eval(World, c)} :
          IsOk(out.resp) =>
            \A k \in CurveIds :
                Supply(out.st, k) = Supply(World, k)
                /\ Sold(out.st, k) = Sold(World, k)

\* two holders hold tokens of one curve, one of them having bought twice or
\* received a transfer, and a buy, a sell and a transfer are about to succeed
C36_Witness ==
    /\ \E k \in DOMAIN curves :
          /\ Cardinality({h \in Users : Held(k, h) > 0}) >= 2
          /\ curves[k].tokens_sold > 0
    /\ \E c \in BuyCalls :
          IsOk(Eval(World, c).resp) /\ Held(c.curve_id, c.sender) > 0
    /\ \E c \in SellCalls(World) : IsOk(Eval(World, c).resp)
    /\ \E c \in TransferCalls(World) : IsOk(Eval(World, c).resp)

\* ----------------------------------------------------------------- C37
\* the STX the launchpad holds in w
Custody(w) == w.stx[LAUNCHPAD]

\* the reserves and fee pools of the curves ids of w, added up
RECURSIVE Owed(_, _)
Owed(w, ids) ==
    IF ids = {} THEN 0
    ELSE LET k == CHOOSE x \in ids : TRUE
         IN  w.curves[k].stx_reserve + w.curves[k].accrued_fees
             + Owed(w, ids \ {k})

\* the amounts of the transfers xf added up
RECURSIVE Total(_)
Total(xf) == IF xf = <<>> THEN 0 ELSE Head(xf).amount + Total(Tail(xf))

\* a trade on one curve followed by a buy large enough to graduate another
SmallBuys ==
    { Call("buy", "wallet2", k, 200, 0, "", NONE, "", "", NoParams) : k \in CurveIds }
LargeBuys ==
    { Call("buy", s, k, 1000, 0, "", NONE, "", "", NoParams) :
        s \in Users, k \in CurveIds }

\* C37 -- Custody solvency: the STX held by the launchpad equal the sum over
\* all curves of stx-reserve + accrued-fees in every reachable state; no sell
\* fails for want of STX in custody; and a buy that graduates a curve, made
\* after a trade on another curve, pays out exactly the graduating curve's fee
\* pool, leaves every other curve as it was and its own reserve in custody.
C37_CustodySolvency ==
    /\ Custody(World) = Owed(World, DOMAIN curves)
    /\ \A c \in UnguardedSells(World) :
          Eval(World, c).resp # Err(STX_ERR_INSUFFICIENT)
    /\ \A b \in SmallBuys : \A w \in {After(World, b)} :
          \A c \in LargeBuys : \A out \in {Eval(w, c)} :
              (IsOk(out.resp) /\ HasGraduation(out, c.curve_id)) =>
                /\ Total(PaidOut(out))
                     = w.curves[c.curve_id].accrued_fees + out.resp.val.fee
                /\ Custody(out.st) = Owed(out.st, DOMAIN out.st.curves)
                /\ out.st.curves[c.curve_id].stx_reserve
                     = w.curves[c.curve_id].stx_reserve + c.amount - out.resp.val.fee
                /\ \A j \in DOMAIN w.curves \ {c.curve_id} :
                      out.st.curves[j] = w.curves[j]

\* custody holds the reserve and the fees of a traded curve, a sell is about
\* to be paid out of it, and a buy on a second curve followed by a buy that
\* graduates the first one is about to pay out the first one's fee pool
C37_Witness ==
    /\ Custody(World) > 0
    /\ \E k \in DOMAIN curves : curves[k].accrued_fees > 0
    /\ \E c \in SellCalls(World) : IsOk(Eval(World, c).resp)
    /\ \E b \in SmallBuys : \E c \in LargeBuys :
          /\ c.curve_id # b.curve_id
          /\ IsOk(Eval(World, b).resp)
          /\ After(World, b).curves[b.curve_id].accrued_fees > 0
          /\ HasGraduation(Eval(After(World, b), c), c.curve_id)
          /\ Total(PaidOut(Eval(After(World, b), c)))
               > curves[c.curve_id].accrued_fees

\* ----------------------------------------------------------------- C38
\* the reserve of curve cv is at or above its graduation threshold
Eligible(cv) == cv.stx_reserve >= cv.graduation_stx

Shortfall(cv) == cv.k - StxSide(cv) * TokenSide(cv)

\* C39 -- Rounding always favours the pool: in every reachable state
\* (virtual-stx + stx-reserve) * (total-supply - tokens-sold) <= k on every
\* curve; right after a successful buy the shortfall is less than virtual-stx
\* + stx-reserve and right after a successful sell it is less than
\* total-supply - tokens-sold, whatever it was before the trade.
C39_RoundingFavoursPool ==
    /\ \A k \in DOMAIN curves : Shortfall(curves[k]) >= 0
    /\ \A c \in UnguardedBuys : \A out \in {Eval(World, c)} :
          IsOk(out.resp) =>
            /\ Shortfall(out.st.curves[c.curve_id]) >= 0
            /\ Shortfall(out.st.curves[c.curve_id]) < StxSide(out.st.curves[c.curve_id])
    /\ \A c \in UnguardedSells(World) : \A out \in {Eval(World, c)} :
          IsOk(out.resp) =>
            /\ Shortfall(out.st.curves[c.curve_id]) >= 0
            /\ Shortfall(out.st.curves[c.curve_id]) < TokenSide(out.st.curves[c.curve_id])

\* a curve whose product is short of k after a rounded trade, on which a buy
\* and a sell are about to succeed and a sell is about to leave a smaller
\* shortfall than there is now
C39_Witness ==
    \E k \in DOMAIN curves :
        /\ Shortfall(curves[k]) > 0
        /\ \E c \in BuyCalls :
              /\ c.curve_id = k /\ IsOk(Eval(World, c).resp)
              /\ Shortfall(After(World, c).curves[k]) > 0
        /\ \E c \in SellCalls(World) :
              /\ c.curve_id = k /\ IsOk(Eval(World, c).resp)
              /\ Shortfall(After(World, c).curves[k]) < Shortfall(curves[k])

\* ----------------------------------------------------------------- C40
\* C40 -- Fee accounting: on every ungraduated curve accrued-fees equals the
\* sum of the fees of all successful buys and sells on it since launch and
\* nothing has been paid out of it; on every graduated curve the pool is 0,
\* one graduation has paid out, and the STX paid out equal the sum of all fees
\* ever charged on the curve, so that no fee was charged after graduation; a
\* successful sell adds its fee to the pool, and a successful buy either adds
\* its fee to the pool or pays out the pool and its fee together.
C40_FeeAccounting ==
    /\ \A k \in CurveIds :
          IF k \notin DOMAIN curves THEN fees_charged[k] = 0 /\ fees_paid[k] = 0
          ELSE IF ~curves[k].graduated
          THEN /\ curves[k].accrued_fees = fees_charged[k]
               /\ fees_paid[k] = 0
               /\ graduation_payouts[k] = 0
          ELSE /\ curves[k].accrued_fees = 0
               /\ fees_paid[k] = fees_charged[k]
               /\ graduation_payouts[k] = 1
    /\ \A c \in UnguardedSells(World) : \A out \in {Eval(World, c)} :
          IsOk(out.resp) =>
            /\ out.st.curves[c.curve_id].accrued_fees
                 = fees_charged[c.curve_id] + out.resp.val.fee
            /\ FeesIn(out.events, c.curve_id) = out.resp.val.fee
    /\ \A c \in UnguardedBuys : \A out \in {Eval(World, c)} :
          IsOk(out.resp) =>
            /\ FeesIn(out.events, c.curve_id) = out.resp.val.fee
            /\ IF out.st.curves[c.curve_id].graduated
               THEN SentBy(out.transfers, LAUNCHPAD)
                      = fees_charged[c.curve_id] + out.resp.val.fee
               ELSE /\ out.st.curves[c.curve_id].accrued_fees
                        = fees_charged[c.curve_id] + out.resp.val.fee
                    /\ SentBy(out.transfers, LAUNCHPAD) = 0

\* at fee 100 bps a buy of 200 (fee 2), the sale of all it bought (fee 1 on
\* 198) and a buy of 1000 (fee 10) have left 13 in the pool of a curve with
\* reserve 990; a sell on which a fee is charged is about to succeed, and so
\* is a buy that graduates the curve and pays out 23, the 13 and its own fee
C40_Witness ==
    \E k \in DOMAIN curves :
        /\ ~curves[k].graduated
        /\ curves[k].fee_bps = 100
        /\ curves[k].stx_reserve = 990
        /\ curves[k].accrued_fees = 13
        /\ fees_charged[k] = 13
        /\ \E c \in SellCalls(World) :
              /\ c.curve_id = k /\ IsOk(Eval(World, c).resp)
              /\ Eval(World, c).resp.val.fee > 0
        /\ \E c \in BuyCalls :
              /\ c.curve_id = k /\ IsOk(Eval(World, c).resp)
              /\ After(World, c).curves[k].graduated
              /\ SentBy(Eval(World, c).transfers, LAUNCHPAD) = 23

====
